---- MODULE Spec2Model ----
(***************************************************************************)
(* AST -> linear IR lowering of the MiniC compiler (IRGenerator), and the  *)
(* execution of the lowered IR of one function; the translation of a call  *)
(* to ARM32 by the instruction selector.                                    *)
(*                                                                         *)
(* The lowering is a recursive walk.  Expressions and leaf statements are  *)
(* operators named after their handlers; the structured statements         *)
(* (function definition, block, if, while) are split at the points where   *)
(* the handler visits a child statement, the handler's position being a    *)
(* frame on `frames`.  A handler that visits a child and goes on with the   *)
(* child's result is written as one operator per stretch of its code, the  *)
(* later stretch taking the child's result as a parameter.                 *)
(***************************************************************************)
EXTENDS Integers, Sequences, FiniteSets, TLC

VARIABLES
    status,         \* "unit" (ir_compile_unit loop), "failed", "crashed", "done", "run", "halt"
    curFunc,        \* Module::currentFunction: a function name, or "" for nullptr
    funcs,          \* Module's function list: sequence of function records
    st,             \* the mutable module state the handlers thread: counters, scopes
    loopCondStack,  \* IRGenerator::loopCondStack
    loopEndStack,   \* IRGenerator::loopEndStack
    frames,         \* the handlers in progress, outermost first
    nstmts,         \* statements and definitions lowered so far (bounds the run)
    last,           \* the leaf statement node just lowered: its fields after the visit
    pc,             \* execution: index of the next instruction of the body
    env,            \* execution: values of locals and of instruction results
    visited,        \* execution: the indices of the instructions executed
    asm,            \* selector: the ARM32 instructions emitted so far (ILocArm32)
    busy,           \* selector: registers the SimpleRegisterAllocator holds
    sel             \* selector: the position of translate_call, its FuncCall

vars == <<status, curFunc, funcs, st, loopCondStack, loopEndStack, frames,
          nstmts, last, pc, env, visited, asm, busy, sel>>

-----------------------------------------------------------------------------
(* Values and types *)

\* A Value: k is the kind, id its identity (the value for a ConstInt),
\* ty its Type tag and dims the dimensions of an array type.
MkVal(k, id, ty, dims) == [k |-> k, id |-> id, ty |-> ty, dims |-> dims]

\* nullptr
Null == MkVal("null", 0, "void", <<>>)

\* Module::newConstInt: interned per value, so the value is the identity.
\* Values stay within the int32_t range in every run explored.
newConstInt(v) == MkVal("const", v, "i32", <<>>)

\* An instruction.  a, b: operands (Move: a = dst, b = src; StoreArray:
\* a = value, b = address; LoadArray, Slice: a = address; Exit: a = return
\* value; conditional Goto: a = cond); t, f: label ids of the true/only and
\* false targets (0: none); args: a call's operands.
MkInst(op, id, ty, dims, a, b, t, f, callee, args) ==
    [op |-> op, id |-> id, ty |-> ty, dims |-> dims, a |-> a, b |-> b,
     t |-> t, f |-> f, callee |-> callee, args |-> args]

\* the Value an instruction is when used as an operand
InstVal(i) == MkVal("inst", i.id, i.ty, i.dims)

LabelInstruction(l) == MkInst("label", l, "void", <<>>, Null, Null, 0, 0, "", <<>>)
\* GotoInstruction(func, target): trueTarget = target, falseTarget = cond = nullptr
GotoInstruction(id, l) == MkInst("goto", id, "void", <<>>, Null, Null, l, 0, "", <<>>)
\* GotoInstruction(func, cond, trueTarget, falseTarget)
CondGotoInstruction(id, c, t, f) == MkInst("bc", id, "void", <<>>, c, Null, t, f, "", <<>>)
MoveInstruction(id, dst, src) == MkInst("move", id, "void", <<>>, dst, src, 0, 0, "", <<>>)
BinaryInstruction(id, op, a, b, ty) == MkInst(op, id, ty, <<>>, a, b, 0, 0, "", <<>>)
EntryInstruction(id) == MkInst("entry", id, "void", <<>>, Null, Null, 0, 0, "", <<>>)
ExitInstruction(id, ret) == MkInst("exit", id, "void", <<>>, ret, Null, 0, 0, "", <<>>)
FuncCallInstruction(id, callee, args, ty) ==
    MkInst("call", id, ty, <<>>, Null, Null, 0, 0, callee, args)
\* operands: array base (the address), offset
LoadArrayInstruction(id, addr, ty) == MkInst("load", id, ty, <<>>, addr, newConstInt(0), 0, 0, "", <<>>)
\* operands: value, array base (the address); the offset operand is ConstInt(0)
StoreArrayInstruction(id, v, addr) == MkInst("store", id, "void", <<>>, v, addr, 0, 0, "", <<>>)
\* operator IRINST_OP_ASSIGN, type = the slice's array type, one operand
ArraySliceInstruction(id, addr, dims) == MkInst("slice", id, "arr", dims, addr, Null, 0, 0, "", <<>>)

-----------------------------------------------------------------------------
(* AST nodes *)

Lit(v) == [op |-> "uint", v |-> v]
Id(n) == [op |-> "id", n |-> n]
Bin(op, l, r) == [op |-> op, l |-> l, r |-> r]
Un(op, x) == [op |-> op, x |-> x]
Call(n, args) == [op |-> "call", n |-> n, args |-> args]
Acc(n, idx) == [op |-> "access", n |-> n, idx |-> idx]

-----------------------------------------------------------------------------
(* Module: scopes, variables, functions *)

\* a scope maps names to Values; scopes is a stack, innermost last
EmptyScope == [x \in {} |-> Null]

RECURSIVE findAllScope(_, _, _)
findAllScope(scopes, i, name) ==
    IF i = 0 THEN Null
    ELSE IF name \in DOMAIN scopes[i] THEN scopes[i][name]
    ELSE findAllScope(scopes, i - 1, name)

\* Module::findVarValue: innermost scope outward, nullptr when not found
findVarValue(s, name) == findAllScope(s.scopes, Len(s.scopes), name)

enterScope(s) == [s EXCEPT !.scopes = Append(@, EmptyScope)]
leaveScope(s) == [s EXCEPT !.scopes = SubSeq(@, 1, Len(@) - 1)]

\* Module::newVarValue(type, name?): a local of the current function, or a
\* global when no function is current; a named variable is entered into the
\* innermost scope.  Returns the value and the module state.
newVarValue(s, cur, ty, dims, name) ==
    [val |-> MkVal(IF cur = "" THEN "global" ELSE "local", s.nv, ty, dims),
     st |-> [s EXCEPT
        !.nv = @ + 1,
        !.globals = IF cur = ""
                    THEN Append(@, [id |-> s.nv, init |-> Null, inBSSSection |-> TRUE])
                    ELSE @,
        !.scopes[Len(s.scopes)] =
            IF name = "" THEN @
            ELSE [x \in (DOMAIN @) \cup {name} |->
                    IF x = name
                    THEN MkVal(IF cur = "" THEN "global" ELSE "local", s.nv, ty, dims)
                    ELSE @[x]]]]

\* Module::findFunction: index of the function in the list, 0 when absent
findFunction(fs, name) ==
    IF \E i \in 1..Len(fs) : fs[i].name = name
    THEN CHOOSE i \in 1..Len(fs) : fs[i].name = name
    ELSE 0

-----------------------------------------------------------------------------
(* Expression lowering.  A handler returns the node's success flag, its    *)
(* val, its blockInsts, the address recorded for the node in               *)
(* g_arrayAccessAddresses (Null: no entry) and the module state.           *)

Res(ok, val, insts, addr, s) == [ok |-> ok, val |-> val, insts |-> insts, addr |-> addr, st |-> s]
Fail(s) == Res(FALSE, Null, <<>>, Null, s)
\* a read through a null pointer ends the run
Crash(s) == Res(FALSE, Null, <<>>, Null, [s EXCEPT !.crash = TRUE])

RECURSIVE ir_visit_ast_node(_, _, _)

ir_leaf_node_uint(node, ctx, s) == Res(TRUE, newConstInt(node.v), <<>>, Null, s)

ir_leaf_node_var_id(node, ctx, s) == Res(TRUE, findVarValue(s, node.n), <<>>, Null, s)

\* the single BinaryInstruction after both operands
ir_arith_emit(node, left, right) ==
    IF ~right.ok THEN Fail(right.st)
    ELSE Res(TRUE, MkVal("inst", right.st.nt, "i32", <<>>),
             left.insts \o right.insts
               \o <<BinaryInstruction(right.st.nt, node.op, left.val, right.val, "i32")>>,
             Null, [right.st EXCEPT !.nt = @ + 1])

ir_arith_right(node, ctx, left) ==
    IF ~left.ok THEN Fail(left.st)
    ELSE ir_arith_emit(node, left, ir_visit_ast_node(node.r, ctx, left.st))

\* ir_add, ir_sub, ir_mul, ir_div, ir_mod: left, right, one BinaryInstruction
ir_arith(node, ctx, s) == ir_arith_right(node, ctx, ir_visit_ast_node(node.l, ctx, s))

\* the branch pattern of convertBoolToInt on the fresh local result
\* a widening with the two constants exchanged
convertBoolToInt_swapped(boolValue, result, s) ==
    [val |-> result,
     insts |-> << CondGotoInstruction(s.nt, boolValue, s.nl, s.nl + 1),
                  LabelInstruction(s.nl),
                  MoveInstruction(s.nt + 1, result, newConstInt(0)),
                  GotoInstruction(s.nt + 2, s.nl + 2),
                  LabelInstruction(s.nl + 1),
                  MoveInstruction(s.nt + 3, result, newConstInt(1)),
                  GotoInstruction(s.nt + 4, s.nl + 2),
                  LabelInstruction(s.nl + 2) >>,
     st |-> [s EXCEPT !.nl = @ + 3, !.nt = @ + 5]]

convertBoolToInt_emit(boolValue, result, s) ==
    [val |-> result,
     insts |-> << CondGotoInstruction(s.nt, boolValue, s.nl, s.nl + 1),
                  LabelInstruction(s.nl),
                  MoveInstruction(s.nt + 1, result, newConstInt(1)),
                  GotoInstruction(s.nt + 2, s.nl + 2),
                  LabelInstruction(s.nl + 1),
                  MoveInstruction(s.nt + 3, result, newConstInt(0)),
                  GotoInstruction(s.nt + 4, s.nl + 2),
                  LabelInstruction(s.nl + 2) >>,
     st |-> [s EXCEPT !.nl = @ + 3, !.nt = @ + 5]]

\* convertBoolToInt: [val, insts, st]; insts are appended to the node's buffer
convertBoolToInt(ctx, boolValue, s) ==
    convertBoolToInt_emit(boolValue,
                          newVarValue(s, ctx.cur, "i32", <<>>, "").val,
                          newVarValue(s, ctx.cur, "i32", <<>>, "").st)

ir_cmp_emit(node, left, right) ==
    IF ~right.ok THEN Fail(right.st)
    ELSE Res(TRUE, MkVal("inst", right.st.nt, "i1", <<>>),
             left.insts \o right.insts
               \o <<BinaryInstruction(right.st.nt, node.op, left.val, right.val, "i1")>>,
             Null, [right.st EXCEPT !.nt = @ + 1])

ir_cmp_right(node, ctx, left) ==
    IF ~left.ok THEN Fail(left.st)
    ELSE ir_cmp_emit(node, left, ir_visit_ast_node(node.r, ctx, left.st))

\* the compare both ir_lt/ir_gt and ir_le/ir_ge/ir_eq/ir_ne start with
ir_cmp(node, ctx, s) == ir_cmp_right(node, ctx, ir_visit_ast_node(node.l, ctx, s))

ir_widen(c, w) == Res(TRUE, w.val, c.insts \o w.insts, Null, w.st)

ir_lt_widen(ctx, c) ==
    IF ~c.ok THEN c ELSE ir_widen(c, convertBoolToInt(ctx, c.val, c.st))

\* ir_lt, ir_gt: the compare, widened by convertBoolToInt
ir_lt(node, ctx, s) == ir_lt_widen(ctx, ir_cmp(node, ctx, s))

\* ir_le, ir_ge, ir_eq, ir_ne: the value is the i1 compare itself
ir_le(node, ctx, s) == ir_cmp(node, ctx, s)

\* x != 0 at i1
NeZero(id, v) == BinaryInstruction(id, "ne", v, newConstInt(0), "i1")

\* an eager conjunction: the right operand's buffer ahead of the branch
ir_and_join_eager(leftNode, rightNode, s, w) ==
    Res(TRUE, w.val,
        leftNode.insts \o rightNode.insts
          \o << NeZero(s.nt, leftNode.val),
                CondGotoInstruction(s.nt + 1, InstVal(NeZero(s.nt, leftNode.val)),
                                    s.nl, s.nl + 1),
                LabelInstruction(s.nl) >>
          \o << NeZero(s.nt + 2, rightNode.val) >>
          \o w.insts
          \o << GotoInstruction(w.st.nt, s.nl + 2),
                LabelInstruction(s.nl + 1),
                MoveInstruction(w.st.nt + 1, w.val, newConstInt(0)),
                GotoInstruction(w.st.nt + 2, s.nl + 2),
                LabelInstruction(s.nl + 2) >>,
        Null, [w.st EXCEPT !.nt = @ + 3])

\* the buffer of ir_and; s is the state after both operands, w the widening
\* of the right compare
ir_and_join(leftNode, rightNode, s, w) ==
    Res(TRUE, w.val,
        leftNode.insts
          \o << NeZero(s.nt, leftNode.val),
                CondGotoInstruction(s.nt + 1, InstVal(NeZero(s.nt, leftNode.val)),
                                    s.nl, s.nl + 1),
                LabelInstruction(s.nl) >>
          \o rightNode.insts
          \o << NeZero(s.nt + 2, rightNode.val) >>
          \o w.insts
          \o << GotoInstruction(w.st.nt, s.nl + 2),
                LabelInstruction(s.nl + 1),
                MoveInstruction(w.st.nt + 1, w.val, newConstInt(0)),
                GotoInstruction(w.st.nt + 2, s.nl + 2),
                LabelInstruction(s.nl + 2) >>,
        Null, [w.st EXCEPT !.nt = @ + 3])

\* labels L_rhs, L_false, L_end = s.nl, s.nl + 1, s.nl + 2
ir_and_emit(leftNode, rightNode, ctx, s) ==
    ir_and_join(leftNode, rightNode, s,
                convertBoolToInt(ctx, InstVal(NeZero(s.nt + 2, rightNode.val)),
                                 [s EXCEPT !.nl = @ + 3, !.nt = @ + 3]))

ir_and_test(leftNode, rightNode, ctx) ==
    IF ~leftNode.ok \/ ~rightNode.ok THEN Fail(rightNode.st)
    ELSE ir_and_emit(leftNode, rightNode, ctx, rightNode.st)

ir_and_right(node, ctx, leftNode) ==
    IF leftNode.st.crash THEN Fail(leftNode.st)
    ELSE ir_and_test(leftNode, ir_visit_ast_node(node.r, ctx, leftNode.st), ctx)

\* ir_and: both operands are visited before either result is tested
ir_and(node, ctx, s) == ir_and_right(node, ctx, ir_visit_ast_node(node.l, ctx, s))

\* the buffer of ir_or; labels L_rhs, L_true, L_end = s.nl, s.nl + 1, s.nl + 2
ir_or_join(leftNode, rightNode, s, w) ==
    Res(TRUE, w.val,
        leftNode.insts
          \o << NeZero(s.nt, leftNode.val),
                CondGotoInstruction(s.nt + 1, InstVal(NeZero(s.nt, leftNode.val)),
                                    s.nl + 1, s.nl),
                LabelInstruction(s.nl) >>
          \o rightNode.insts
          \o << NeZero(s.nt + 2, rightNode.val) >>
          \o w.insts
          \o << GotoInstruction(w.st.nt, s.nl + 2),
                LabelInstruction(s.nl + 1),
                MoveInstruction(w.st.nt + 1, w.val, newConstInt(1)),
                GotoInstruction(w.st.nt + 2, s.nl + 2),
                LabelInstruction(s.nl + 2) >>,
        Null, [w.st EXCEPT !.nt = @ + 3])

ir_or_emit(leftNode, rightNode, ctx, s) ==
    ir_or_join(leftNode, rightNode, s,
               convertBoolToInt(ctx, InstVal(NeZero(s.nt + 2, rightNode.val)),
                                [s EXCEPT !.nl = @ + 3, !.nt = @ + 3]))

ir_or_test(leftNode, rightNode, ctx) ==
    IF ~leftNode.ok \/ ~rightNode.ok THEN Fail(rightNode.st)
    ELSE ir_or_emit(leftNode, rightNode, ctx, rightNode.st)

ir_or_right(node, ctx, leftNode) ==
    IF leftNode.st.crash THEN Fail(leftNode.st)
    ELSE ir_or_test(leftNode, ir_visit_ast_node(node.r, ctx, leftNode.st), ctx)

ir_or(node, ctx, s) == ir_or_right(node, ctx, ir_visit_ast_node(node.l, ctx, s))

ir_not_widen(operandNode, eqInst, w) ==
    Res(TRUE, w.val, operandNode.insts \o <<eqInst>> \o w.insts, Null, w.st)

ir_not_emit(ctx, operandNode) ==
    IF ~operandNode.ok THEN Fail(operandNode.st)
    ELSE ir_not_widen(operandNode,
            BinaryInstruction(operandNode.st.nt, "eq", operandNode.val, newConstInt(0), "i1"),
            convertBoolToInt(ctx, MkVal("inst", operandNode.st.nt, "i1", <<>>),
                             [operandNode.st EXCEPT !.nt = @ + 1]))

\* ir_not: x == 0 at i1, then widened
ir_not(node, ctx, s) == ir_not_emit(ctx, ir_visit_ast_node(node.x, ctx, s))

\* the inlined widening of ir_neg: labels L_true, L_false, L_join = l, l+1,
\* l+2, created before the local tmpInt; s is the state after them
ir_neg_widen(operand, l, tmpInt, s) ==
    Res(TRUE, MkVal("inst", s.nt + 5, "i32", <<>>),
        operand.insts \o
        << CondGotoInstruction(s.nt, operand.val, l, l + 1),
           LabelInstruction(l),
           MoveInstruction(s.nt + 1, tmpInt, newConstInt(1)),
           GotoInstruction(s.nt + 2, l + 2),
           LabelInstruction(l + 1),
           MoveInstruction(s.nt + 3, tmpInt, newConstInt(0)),
           GotoInstruction(s.nt + 4, l + 2),
           LabelInstruction(l + 2),
           BinaryInstruction(s.nt + 5, "sub", newConstInt(0), tmpInt, "i32") >>,
        Null, [s EXCEPT !.nt = @ + 6])

MinInt32 == -2147483647 - 1

\* int32_t negValue = -v, kept to 32 bits: the negation of the least
\* int32_t wraps to itself
Neg32(v) == IF v = MinInt32 THEN MinInt32 ELSE 0 - v

ir_neg_emit(ctx, operand) ==
    IF ~operand.ok THEN Fail(operand.st)
    ELSE IF ctx.cur = "" THEN
        IF operand.val.k = "const"
        THEN Res(TRUE, newConstInt(Neg32(operand.val.id)), <<>>, Null, operand.st)
        ELSE Fail(operand.st)
    ELSE IF operand.val.k = "null" THEN Crash(operand.st)     \* target->getType()
    ELSE IF operand.val.ty = "i1" THEN
        ir_neg_widen(operand, operand.st.nl,
            newVarValue([operand.st EXCEPT !.nl = @ + 3], ctx.cur, "i32", <<>>, "").val,
            newVarValue([operand.st EXCEPT !.nl = @ + 3], ctx.cur, "i32", <<>>, "").st)
    ELSE Res(TRUE, MkVal("inst", operand.st.nt, "i32", <<>>),
             operand.insts
               \o <<BinaryInstruction(operand.st.nt, "sub", newConstInt(0), operand.val, "i32")>>,
             Null, [operand.st EXCEPT !.nt = @ + 1])

\* unary minus that hands its operand on
ir_neg_keep(node, ctx, s) == ir_visit_ast_node(node.x, ctx, s)

\* ir_neg: at module scope only a ConstInt operand; in a function 0 - x,
\* an i1 operand widened first by the inlined branch pattern
ir_neg(node, ctx, s) == ir_neg_emit(ctx, ir_visit_ast_node(node.x, ctx, s))

ParamsRes(ok, vals, insts, s) == [ok |-> ok, vals |-> vals, insts |-> insts, st |-> s]

RECURSIVE ir_real_params(_, _, _, _, _, _)

ir_real_params_step(sons, i, realParams, insts, ctx, temp) ==
    IF ~temp.ok THEN ParamsRes(FALSE, realParams, insts, temp.st)
    ELSE IF sons[i].op = "id" /\ temp.val.k = "null"      \* temp->val->getType()
    THEN ParamsRes(FALSE, realParams, insts, [temp.st EXCEPT !.crash = TRUE])
    ELSE ir_real_params(sons, i + 1, Append(realParams, temp.val),
                        insts \o temp.insts, ctx, temp.st)

\* the argument loop of ir_function_call, from argument i on, left to right
ir_real_params(sons, i, realParams, insts, ctx, s) ==
    IF i > Len(sons) THEN ParamsRes(TRUE, realParams, insts, s)
    ELSE ir_real_params_step(sons, i, realParams, insts, ctx,
                             ir_visit_ast_node(sons[i], ctx, s))

\* a call emitted whatever the number of arguments
ir_function_call_emit_unchecked(node, ctx, calledFunction, ps) ==
    IF ~ps.ok THEN Fail(ps.st)
    ELSE Res(TRUE, MkVal("inst", ps.st.nt, ctx.funcs[calledFunction].ret, <<>>),
             ps.insts \o <<FuncCallInstruction(ps.st.nt, node.n, ps.vals,
                                               ctx.funcs[calledFunction].ret)>>,
             Null, [ps.st EXCEPT !.nt = @ + 1])

\* the argument-count check and the FuncCallInstruction
ir_function_call_emit(node, ctx, calledFunction, ps) ==
    IF ~ps.ok THEN Fail(ps.st)
    ELSE IF Len(ps.vals) # Len(ctx.funcs[calledFunction].params) THEN Fail(ps.st)
    ELSE Res(TRUE, MkVal("inst", ps.st.nt, ctx.funcs[calledFunction].ret, <<>>),
             ps.insts \o <<FuncCallInstruction(ps.st.nt, node.n, ps.vals,
                                               ctx.funcs[calledFunction].ret)>>,
             Null, [ps.st EXCEPT !.nt = @ + 1])

ir_function_call(node, ctx, s) ==
    IF findFunction(ctx.funcs, node.n) = 0 THEN Fail(s)
    ELSE IF ctx.cur = "" THEN Crash(s)             \* currentFunc->setExistFuncCall
    ELSE ir_function_call_emit(node, ctx, findFunction(ctx.funcs, node.n),
            ir_real_params(node.args, 1, <<>>, <<>>, ctx,
                [s EXCEPT !.existCall = TRUE,
                          !.maxArgs = IF Len(node.args) > @ THEN Len(node.args) ELSE @]))

-----------------------------------------------------------------------------
(* Arrays *)

\* sizeof(int)
ElementSize == 4
\* the size recorded for a dimension that is not a ConstInt
DefaultDim == 10

DimsRes(ok, vals, consts, insts, s) ==
    [ok |-> ok, vals |-> vals, consts |-> consts, insts |-> insts, st |-> s]

RECURSIVE ir_get_array_dimensions(_, _, _, _, _, _, _)

ir_get_array_dimensions_step(sons, i, dimValues, dimConstants, insts, ctx, dimNode) ==
    IF ~dimNode.ok THEN DimsRes(FALSE, dimValues, dimConstants, insts, dimNode.st)
    ELSE ir_get_array_dimensions(sons, i + 1, Append(dimValues, dimNode.val),
            Append(dimConstants,
                   IF dimNode.val.k = "const" THEN dimNode.val.id ELSE DefaultDim),
            insts \o dimNode.insts, ctx, dimNode.st)

\* the loop of ir_get_array_dimensions from child i on: the values, the
\* constant sizes and the instructions added to the parent's buffer
ir_get_array_dimensions(sons, i, dimValues, dimConstants, insts, ctx, s) ==
    IF i > Len(sons) THEN DimsRes(TRUE, dimValues, dimConstants, insts, s)
    ELSE ir_get_array_dimensions_step(sons, i, dimValues, dimConstants, insts, ctx,
                                      ir_visit_ast_node(sons[i], ctx, s))

\* fullDimensions[j - 1] of the source (j counts from 1 here); a read past
\* the end of the vector yields whatever lies there, ctx.oob
DimAt(fullDimensions, j, ctx) ==
    IF j <= Len(fullDimensions) THEN fullDimensions[j] ELSE ctx.oob

RECURSIVE RemainingSize(_)
RemainingSize(remainingDims) ==
    IF remainingDims = <<>> THEN 1
    ELSE Head(remainingDims) * RemainingSize(Tail(remainingDims))

OffRes(val, insts, nt) == [val |-> val, insts |-> insts, nt |-> nt]

RECURSIVE ir_offset_loop_own_dim(_, _, _, _, _, _, _)
\* an offset loop that scales by the size of the dimension just indexed
ir_offset_loop_own_dim(indices, fullDimensions, i, linearOffset, insts, ctx, nt) ==
    IF i >= Len(indices) THEN OffRes(linearOffset, insts, nt)
    ELSE ir_offset_loop_own_dim(indices, fullDimensions, i + 1,
            MkVal("inst", nt + 1, "i32", <<>>),
            insts \o
            << BinaryInstruction(nt, "mul", linearOffset,
                                 newConstInt(DimAt(fullDimensions, i, ctx)), "i32"),
               BinaryInstruction(nt + 1, "add", MkVal("inst", nt, "i32", <<>>),
                                 indices[i + 1], "i32") >>,
            ctx, nt + 2)

RECURSIVE ir_offset_loop(_, _, _, _, _, _, _)
\* for (i = 1; i < accessedDims; ++i): linearOffset = linearOffset * dims[i] + indices[i]
ir_offset_loop(indices, fullDimensions, i, linearOffset, insts, ctx, nt) ==
    IF i >= Len(indices) THEN OffRes(linearOffset, insts, nt)
    ELSE ir_offset_loop(indices, fullDimensions, i + 1,
            MkVal("inst", nt + 1, "i32", <<>>),
            insts \o
            << BinaryInstruction(nt, "mul", linearOffset,
                                 newConstInt(DimAt(fullDimensions, i + 1, ctx)), "i32"),
               BinaryInstruction(nt + 1, "add", MkVal("inst", nt, "i32", <<>>),
                                 indices[i + 1], "i32") >>,
            ctx, nt + 2)

\* a partial access multiplies by the size of the remaining dimensions
ir_offset_remaining(h, isFullAccess, remainingDims) ==
    IF ~isFullAccess /\ RemainingSize(remainingDims) > 1
    THEN OffRes(MkVal("inst", h.nt, "i32", <<>>),
                Append(h.insts,
                       BinaryInstruction(h.nt, "mul", h.val,
                                         newConstInt(RemainingSize(remainingDims)), "i32")),
                h.nt + 1)
    ELSE h

ir_calculate_array_offset(indices, fullDimensions, isFullAccess, remainingDims, ctx, nt) ==
    IF Len(indices) = 0 THEN OffRes(newConstInt(0), <<>>, nt)
    ELSE ir_offset_remaining(
            ir_offset_loop(indices, fullDimensions, 1, indices[1], <<>>, ctx, nt),
            isFullAccess, remainingDims)

\* an access that loads whatever the number of indices
ir_generate_array_access_instructions_load(arrayVal, linearOffset, nt, isFullAccess, remainingDims) ==
    [val |-> MkVal("inst", nt + 2, "i32", <<>>),
     insts |-> << BinaryInstruction(nt, "mul", linearOffset, newConstInt(ElementSize), "i32"),
                  BinaryInstruction(nt + 1, "add", arrayVal,
                                    MkVal("inst", nt, "i32", <<>>), "ptr"),
                  LoadArrayInstruction(nt + 2, MkVal("inst", nt + 1, "ptr", <<>>), "i32") >>,
     addr |-> MkVal("inst", nt + 1, "ptr", <<>>), nt |-> nt + 3]

\* byte offset, address, then LoadArray (full access; the address is
\* recorded in g_arrayAccessAddresses) or the Slice (partial access)
ir_generate_array_access_instructions(arrayVal, linearOffset, nt, isFullAccess, remainingDims) ==
    LET byteOffsetInst == BinaryInstruction(nt, "mul", linearOffset, newConstInt(ElementSize), "i32")
        addrInst == BinaryInstruction(nt + 1, "add", arrayVal,
                                      MkVal("inst", nt, "i32", <<>>), "ptr")
        addr == MkVal("inst", nt + 1, "ptr", <<>>)
    IN  IF isFullAccess
        THEN [val |-> MkVal("inst", nt + 2, "i32", <<>>),
              insts |-> <<byteOffsetInst, addrInst, LoadArrayInstruction(nt + 2, addr, "i32")>>,
              addr |-> addr, nt |-> nt + 3]
        ELSE [val |-> MkVal("inst", nt + 2, "arr", remainingDims),
              insts |-> <<byteOffsetInst, addrInst, ArraySliceInstruction(nt + 2, addr, remainingDims)>>,
              addr |-> Null, nt |-> nt + 3]

ir_array_access_gen(arrayNameNode, ix, off, g) ==
    Res(TRUE, g.val, ix.insts \o arrayNameNode.insts \o off.insts \o g.insts, g.addr,
        [ix.st EXCEPT !.nt = g.nt])

ir_array_access_emit(arrayNameNode, ix, isFullAccess, remainingDims, off) ==
    ir_array_access_gen(arrayNameNode, ix, off,
        ir_generate_array_access_instructions(arrayNameNode.val, off.val, off.nt,
                                              isFullAccess, remainingDims))

ir_array_access_shape(arrayNameNode, ix, ctx, fullDimensions) ==
    ir_array_access_emit(arrayNameNode, ix,
        Len(ix.vals) = Len(fullDimensions),
        IF Len(ix.vals) = Len(fullDimensions) THEN <<>>
        ELSE SubSeq(fullDimensions, Len(ix.vals) + 1, Len(fullDimensions)),
        ir_calculate_array_offset(ix.vals, fullDimensions,
            Len(ix.vals) = Len(fullDimensions),
            IF Len(ix.vals) = Len(fullDimensions) THEN <<>>
            ELSE SubSeq(fullDimensions, Len(ix.vals) + 1, Len(fullDimensions)),
            ctx, ix.st.nt))

ir_array_access_idx(arrayNameNode, ix, ctx) ==
    IF ~ix.ok THEN Fail(ix.st)
    ELSE IF arrayNameNode.val.k = "null" THEN Crash(ix.st)   \* val->getType()
    ELSE IF arrayNameNode.val.ty # "arr" THEN Fail(ix.st)
    ELSE ir_array_access_shape(arrayNameNode, ix, ctx, arrayNameNode.val.dims)

ir_array_access_name(node, ctx, arrayNameNode) ==
    IF ~arrayNameNode.ok THEN Fail(arrayNameNode.st)
    ELSE ir_array_access_idx(arrayNameNode,
            ir_get_array_dimensions(node.idx, 1, <<>>, <<>>, <<>>, ctx, arrayNameNode.st),
            ctx)

ir_array_access(node, ctx, s) ==
    ir_array_access_name(node, ctx, ir_visit_ast_node(Id(node.n), ctx, s))

-----------------------------------------------------------------------------
(* Leaf statements *)

Assign(l, r) == [op |-> "assign", l |-> l, r |-> r]
\* e: <<>> or <<expr>>
Return(e) == [op |-> "return", e |-> e]
Break == [op |-> "break"]
Continue == [op |-> "continue"]
\* init: <<>> or <<expr>>
VarDef(n, init) == [op |-> "vardef", n |-> n, init |-> init]
ArrayDef(n, dims) == [op |-> "arraydef", n |-> n, dims |-> dims]
DeclStmt(defs) == [op |-> "decl", defs |-> defs]

\* the buffer is right, left, then the StoreArray on the address recorded
\* for the left node or the Move
ir_assign_emit(node, left, right) ==
    IF ~right.ok THEN Fail(right.st)
    ELSE IF node.l.op = "access"
    THEN Res(TRUE, MkVal("inst", right.st.nt, "void", <<>>),
             right.insts \o left.insts
               \o <<StoreArrayInstruction(right.st.nt, right.val, left.addr)>>,
             Null, [right.st EXCEPT !.nt = @ + 1])
    ELSE Res(TRUE, MkVal("inst", right.st.nt, "void", <<>>),
             right.insts \o left.insts
               \o <<MoveInstruction(right.st.nt, left.val, right.val)>>,
             Null, [right.st EXCEPT !.nt = @ + 1])

ir_assign_right(node, ctx, left) ==
    IF ~left.ok THEN Fail(left.st)
    ELSE ir_assign_emit(node, left, ir_visit_ast_node(node.r, ctx, left.st))

\* ir_assign: the left operand is visited first, then the right one
ir_assign(node, ctx, s) == ir_assign_right(node, ctx, ir_visit_ast_node(node.l, ctx, s))

ir_return_emit(ctx, right) ==
    IF ~right.ok THEN Fail(right.st)
    ELSE IF ctx.cur = "" THEN Crash(right.st)       \* currentFunc->getReturnValue()
    ELSE Res(TRUE, right.val,
             right.insts \o << MoveInstruction(right.st.nt, ctx.retVal, right.val),
                               GotoInstruction(right.st.nt + 1, ctx.exitLabel) >>,
             Null, [right.st EXCEPT !.nt = @ + 2])

ir_return(node, ctx, s) ==
    IF node.e # <<>> THEN ir_return_emit(ctx, ir_visit_ast_node(node.e[1], ctx, s))
    ELSE IF ctx.cur = "" THEN Crash(s)              \* currentFunc->getExitLabel()
    ELSE Res(TRUE, Null, <<GotoInstruction(s.nt, ctx.exitLabel)>>, Null,
             [s EXCEPT !.nt = @ + 1])

\* a break that leaves the outermost loop
ir_break_outermost(node, ctx, s) ==
    IF ctx.loopEnd = <<>> THEN Fail(s)
    ELSE Res(TRUE, Null, <<GotoInstruction(s.nt, ctx.loopEnd[1])>>, Null,
             [s EXCEPT !.nt = @ + 1])

\* a continue that does not test the loop stack
ir_continue_unchecked(node, ctx, s) ==
    Res(TRUE, Null,
        <<GotoInstruction(s.nt, IF ctx.loopCond = <<>> THEN 0
                                ELSE ctx.loopCond[Len(ctx.loopCond)])>>,
        Null, [s EXCEPT !.nt = @ + 1])

ir_break(node, ctx, s) ==
    IF ctx.loopEnd = <<>> THEN Fail(s)
    ELSE Res(TRUE, Null, <<GotoInstruction(s.nt, ctx.loopEnd[Len(ctx.loopEnd)])>>, Null,
             [s EXCEPT !.nt = @ + 1])

ir_continue(node, ctx, s) ==
    IF ctx.loopCond = <<>> THEN Fail(s)
    ELSE Res(TRUE, Null, <<GotoInstruction(s.nt, ctx.loopCond[Len(ctx.loopCond)])>>, Null,
             [s EXCEPT !.nt = @ + 1])

\* GlobalVariable::setInitializer
setInitializer(g, initVal) ==
    [g EXCEPT !.init = initVal,
              !.inBSSSection = IF initVal.k # "null" THEN FALSE ELSE @]

GlobalIndex(s, var) == CHOOSE i \in 1..Len(s.globals) : s.globals[i].id = var.id

\* a local gets a Move, a global its initializer
ir_simple_var_def_init(ctx, var, initNode) ==
    IF ~initNode.ok THEN Fail(initNode.st)
    ELSE IF ctx.cur # ""
    THEN Res(TRUE, var,
             initNode.insts \o <<MoveInstruction(initNode.st.nt, var, initNode.val)>>,
             Null, [initNode.st EXCEPT !.nt = @ + 1])
    ELSE Res(TRUE, var, initNode.insts, Null,
             [initNode.st EXCEPT !.globals[GlobalIndex(initNode.st, var)] =
                                        setInitializer(@, initNode.val)])

ir_simple_var_def_var(defNode, ctx, nv) ==
    IF defNode.init = <<>> THEN Res(TRUE, nv.val, <<>>, Null, nv.st)
    ELSE ir_simple_var_def_init(ctx, nv.val, ir_visit_ast_node(defNode.init[1], ctx, nv.st))

\* the variable is created before its initializer is lowered
ir_simple_var_def(defNode, ctx, s) ==
    ir_simple_var_def_var(defNode, ctx, newVarValue(s, ctx.cur, "i32", <<>>, defNode.n))

ir_array_var_def_var(nv, d) == Res(TRUE, nv.val, d.insts, Null, nv.st)

ir_array_var_def_dims(defNode, ctx, d) ==
    IF ~d.ok THEN Fail(d.st)
    ELSE ir_array_var_def_var(newVarValue(d.st, ctx.cur, "arr", d.consts, defNode.n), d)

ir_array_var_def(defNode, ctx, s) ==
    ir_array_var_def_dims(defNode, ctx,
        ir_get_array_dimensions(defNode.dims, 1, <<>>, <<>>, <<>>, ctx, s))

ir_variable_declare(defNode, ctx, s) ==
    IF defNode.op = "vardef" THEN ir_simple_var_def(defNode, ctx, s)
    ELSE IF defNode.op = "arraydef" THEN ir_array_var_def(defNode, ctx, s)
    ELSE Fail(s)

RECURSIVE ir_declare_loop(_, _, _, _, _)

ir_declare_step(defs, i, insts, ctx, child) ==
    IF ~child.ok THEN Fail(child.st)
    ELSE ir_declare_loop(defs, i + 1, insts \o child.insts, ctx, child.st)

ir_declare_loop(defs, i, insts, ctx, s) ==
    IF i > Len(defs) THEN Res(TRUE, Null, insts, Null, s)
    ELSE ir_declare_step(defs, i, insts, ctx, ir_variable_declare(defs[i], ctx, s))

ir_declare_statment(node, ctx, s) == ir_declare_loop(node.defs, 1, <<>>, ctx, s)

\* a node type without a handler: reported, and lowering goes on
ir_default(node, ctx, s) == Res(TRUE, Null, <<>>, Null, s)

\* the handler table; a failed handler makes the visit return nullptr
ir_visit_ast_node(node, ctx, s) ==
    CASE node.op = "uint" -> ir_leaf_node_uint(node, ctx, s)
      [] node.op = "id" -> ir_leaf_node_var_id(node, ctx, s)
      [] node.op \in {"add", "sub", "mul", "div", "mod"} -> ir_arith(node, ctx, s)
      [] node.op \in {"lt", "gt"} -> ir_lt(node, ctx, s)
      [] node.op \in {"le", "ge", "eq", "ne"} -> ir_le(node, ctx, s)
      [] node.op = "and" -> ir_and(node, ctx, s)
      [] node.op = "or" -> ir_or(node, ctx, s)
      [] node.op = "not" -> ir_not(node, ctx, s)
      [] node.op = "neg" -> ir_neg(node, ctx, s)
      [] node.op = "call" -> ir_function_call(node, ctx, s)
      [] node.op = "access" -> ir_array_access(node, ctx, s)
      [] node.op = "assign" -> ir_assign(node, ctx, s)
      [] node.op = "return" -> ir_return(node, ctx, s)
      [] node.op = "break" -> ir_break(node, ctx, s)
      [] node.op = "continue" -> ir_continue(node, ctx, s)
      [] node.op = "decl" -> ir_declare_statment(node, ctx, s)
      [] OTHER -> ir_default(node, ctx, s)

-----------------------------------------------------------------------------
(* Function definition *)

\* a formal parameter: name, whether it has an array-dims child, and the
\* expressions of the dimensions after the omitted first one
Param(n, arr, dimExprs) == [n |-> n, arr |-> arr, dimExprs |-> dimExprs]

\* Module::newFunction: the function with an empty parameter list and body
newFunction(name, ret) ==
    [name |-> name, ret |-> ret, params |-> <<>>, code |-> <<>>,
     exitLabel |-> 0, retVal |-> Null, complete |-> FALSE]

TypesRes(ok, types, s) == [ok |-> ok, types |-> types, st |-> s]

RECURSIVE ir_formal_types(_, _, _, _, _)

\* the array type of a parameter: first dimension 0, then the constants
ir_formal_types_dims(params, i, types, ctx, d) ==
    IF ~d.ok THEN TypesRes(FALSE, types, d.st)
    ELSE ir_formal_types(params, i + 1,
            Append(types, [ty |-> "arr", dims |-> <<0>> \o d.consts]), ctx, d.st)

\* first loop of ir_function_formal_params: the FormalParam types
ir_formal_types(params, i, types, ctx, s) ==
    IF i > Len(params) THEN TypesRes(TRUE, types, s)
    ELSE IF params[i].arr
    THEN ir_formal_types_dims(params, i, types, ctx,
            ir_get_array_dimensions(params[i].dimExprs, 1, <<>>, <<>>, <<>>, ctx, s))
    ELSE ir_formal_types(params, i + 1, Append(types, [ty |-> "i32", dims |-> <<>>]), ctx, s)

RECURSIVE ir_formal_locals(_, _, _, _, _, _)

ir_formal_locals_var(params, types, i, moves, cur, nv) ==
    ir_formal_locals(params, types, i + 1,
        Append(moves, MoveInstruction(nv.st.nt, nv.val,
                                      MkVal("param", i, types[i].ty, types[i].dims))),
        cur, [nv.st EXCEPT !.nt = @ + 1])

\* second loop: a named local per parameter and the Move from the FormalParam
ir_formal_locals(params, types, i, moves, cur, s) ==
    IF i > Len(params) THEN [ok |-> TRUE, types |-> types, moves |-> moves, st |-> s]
    ELSE ir_formal_locals_var(params, types, i, moves, cur,
            newVarValue(s, cur, types[i].ty, types[i].dims, params[i].n))

ir_function_formal_params_locals(params, ctx, t) ==
    IF ~t.ok THEN [ok |-> FALSE, types |-> t.types, moves |-> <<>>, st |-> t.st]
    ELSE ir_formal_locals(params, t.types, 1, <<>>, ctx.cur, t.st)

ir_function_formal_params(params, ctx, s) ==
    ir_function_formal_params_locals(params, ctx, ir_formal_types(params, 1, <<>>, ctx, s))

-----------------------------------------------------------------------------
(* The walk over statements *)

Frame(kind, phase, buf, cond, lc, lb, le) ==
    [kind |-> kind, phase |-> phase, buf |-> buf, cond |-> cond, alt |-> <<>>,
     lc |-> lc, lb |-> lb, le |-> le]

NoCond == [val |-> Null, insts |-> <<>>]
NoLast == [node |-> [op |-> "none"], ok |-> TRUE, val |-> Null, insts |-> <<>>, addr |-> Null]

Top == frames[Len(frames)]
Pop(fs) == SubSeq(fs, 1, Len(fs) - 1)

\* the handler on top of the walk is about to visit a child statement
CanTakeStmt ==
    /\ status = "unit"
    /\ frames # <<>>
    /\ \/ Top.kind \in {"func", "block"}
       \/ Top.kind = "while" /\ Top.phase = "body"
       \/ Top.kind = "if" /\ Top.phase \in {"then", "else"}

\* the visit of a child statement returned with buffer b
Deliver(fs, b) ==
    [fs EXCEPT ![Len(fs)] =
        CASE @.kind \in {"func", "block"} -> [@ EXCEPT !.buf = @ \o b]
          [] @.kind = "while" -> [@ EXCEPT !.buf = b, !.phase = "done"]
          [] @.kind = "if" /\ @.phase = "then" -> [@ EXCEPT !.buf = b, !.phase = "else"]
          [] OTHER -> [@ EXCEPT !.alt = b, !.phase = "done"]]

CurF == funcs[Len(funcs)]

Ctx(oob) ==
    [cur |-> curFunc, funcs |-> funcs,
     retVal |-> IF curFunc = "" THEN Null ELSE CurF.retVal,
     exitLabel |-> IF curFunc = "" THEN 0 ELSE CurF.exitLabel,
     loopCond |-> loopCondStack, loopEnd |-> loopEndStack, oob |-> oob]

\* a handler returned false: every handler in progress returns false in turn
\* without any cleanup, and lowering is over; frames keeps where it stopped
Abort(s) ==
    /\ status' = IF s.crash THEN "crashed" ELSE "failed"
    /\ st' = s
    /\ frames' = frames

StmtDone(node, r) ==
    /\ last' = [node |-> node, ok |-> r.ok, val |-> r.val, insts |-> r.insts, addr |-> r.addr]
    /\ nstmts' = nstmts + 1
    /\ IF r.ok
       THEN /\ frames' = IF frames = <<>> THEN frames ELSE Deliver(frames, r.insts)
            /\ st' = r.st
            /\ status' = status
       ELSE Abort(r.st)
    /\ UNCHANGED <<asm, busy, sel, curFunc, funcs, loopCondStack, loopEndStack, pc, env, visited>>

\* one leaf statement visited by the block, if or while on top, or a
\* declaration visited by ir_compile_unit
Stmt(node, oob) ==
    /\ \/ CanTakeStmt
       \/ status = "unit" /\ frames = <<>> /\ node.op = "decl"
    /\ StmtDone(node, ir_visit_ast_node(node, Ctx(oob), st))

\* ir_block with needScope: enterScope, then the statements
BlockEnter ==
    /\ CanTakeStmt
    /\ frames' = Append(frames, Frame("block", "stmts", <<>>, NoCond, 0, 0, 0))
    /\ st' = enterScope(st)
    /\ last' = NoLast
    /\ UNCHANGED <<asm, busy, sel, nstmts, status, curFunc, funcs, loopCondStack, loopEndStack, pc, env, visited>>

\* a block that keeps its scope open
ir_block_leave_none(s) == s

\* the end of ir_block with needScope: the scope is left
ir_block_leave(s) == leaveScope(s)

BlockExit ==
    /\ status = "unit"
    /\ frames # <<>>
    /\ Top.kind = "block"
    /\ frames' = Deliver(Pop(frames), Top.buf)
    /\ st' = ir_block_leave(st)
    /\ last' = NoLast
    /\ UNCHANGED <<asm, busy, sel, status, curFunc, funcs, loopCondStack, loopEndStack, nstmts, pc, env, visited>>

WhileCond(l, condNode) ==
    /\ loopCondStack' = Append(loopCondStack, l)
    /\ loopEndStack' = Append(loopEndStack, l + 2)
    /\ nstmts' = nstmts + 1
    /\ last' = NoLast
    /\ IF condNode.ok
       THEN /\ frames' = Append(frames, Frame("while", "body", <<>>,
                                [val |-> condNode.val, insts |-> condNode.insts],
                                l, l + 1, l + 2))
            /\ st' = condNode.st
            /\ status' = status
       ELSE Abort(condNode.st)
    /\ UNCHANGED <<asm, busy, sel, curFunc, funcs, pc, env, visited>>

\* ir_while up to the visit of the body: three labels, both stacks pushed,
\* the condition lowered
WhileEnter(condExpr, oob) ==
    /\ CanTakeStmt
    /\ WhileCond(st.nl,
          ir_visit_ast_node(condExpr,
              [Ctx(oob) EXCEPT !.loopCond = Append(@, st.nl),
                               !.loopEnd = Append(@, st.nl + 2)],
              [st EXCEPT !.nl = @ + 3]))

\* the branch on a lowered condition: a ConstInt condition gives a goto
CondBranch(cond, n, t, f) ==
    IF cond.val.k = "const"
    THEN GotoInstruction(n, IF cond.val.id # 0 THEN t ELSE f)
    ELSE CondGotoInstruction(n, cond.val, t, f)

\* a loop buffer without its end label
WhileInsts_no_end(fr, n) ==
    <<LabelInstruction(fr.lc)>> \o fr.cond.insts
      \o << CondBranch(fr.cond, n, fr.lb, fr.le), LabelInstruction(fr.lb) >>
      \o fr.buf
      \o << GotoInstruction(n + 1, fr.lc) >>

\* a loop buffer whose condition is computed once, before L_cond
WhileInsts_cond_first(fr, n) ==
    fr.cond.insts \o <<LabelInstruction(fr.lc)>>
      \o << CondBranch(fr.cond, n, fr.lb, fr.le), LabelInstruction(fr.lb) >>
      \o fr.buf
      \o << GotoInstruction(n + 1, fr.lc), LabelInstruction(fr.le) >>

\* the buffer ir_while assembles
WhileInsts(fr, n) ==
    <<LabelInstruction(fr.lc)>> \o fr.cond.insts
      \o << CondBranch(fr.cond, n, fr.lb, fr.le), LabelInstruction(fr.lb) >>
      \o fr.buf
      \o << GotoInstruction(n + 1, fr.lc), LabelInstruction(fr.le) >>

\* ir_while after the body (a nullptr body when none was visited); `last`
\* keeps the condition's value and buffer, the body's buffer, the labels
\* and the buffer of the loop
WhileExit ==
    /\ status = "unit"
    /\ frames # <<>>
    /\ Top.kind = "while"
    /\ frames' = Deliver(Pop(frames), WhileInsts(Top, st.nt))
    /\ st' = [st EXCEPT !.nt = @ + 2]
    /\ loopCondStack' = Pop(loopCondStack)
    /\ loopEndStack' = Pop(loopEndStack)
    /\ last' = [node |-> [op |-> "while", cond |-> Top.cond.insts, body |-> Top.buf,
                          lc |-> Top.lc, lb |-> Top.lb, le |-> Top.le],
                ok |-> TRUE, val |-> Top.cond.val, insts |-> WhileInsts(Top, st.nt),
                addr |-> Null]
    /\ UNCHANGED <<asm, busy, sel, status, curFunc, funcs, nstmts, pc, env, visited>>

IfCond(condNode) ==
    /\ nstmts' = nstmts + 1
    /\ last' = NoLast
    /\ IF condNode.ok
       THEN /\ frames' = Append(frames, Frame("if", "then", <<>>,
                                [val |-> condNode.val, insts |-> condNode.insts], 0, 0, 0))
            /\ st' = condNode.st
            /\ status' = status
       ELSE Abort(condNode.st)
    /\ UNCHANGED <<asm, busy, sel, curFunc, funcs, loopCondStack, loopEndStack, pc, env, visited>>

\* ir_if up to the visit of the then branch
IfEnter(condExpr, oob) ==
    /\ CanTakeStmt
    /\ IfCond(ir_visit_ast_node(condExpr, Ctx(oob), st))

\* a nullptr then branch
IfThenEmpty ==
    /\ status = "unit"
    /\ frames # <<>>
    /\ Top.kind = "if" /\ Top.phase = "then"
    /\ frames' = [frames EXCEPT ![Len(frames)].phase = "else"]
    /\ last' = NoLast
    /\ UNCHANGED <<asm, busy, sel, status, curFunc, funcs, st, loopCondStack, loopEndStack, nstmts,
                   pc, env, visited>>

\* an if buffer whose then branch runs on into the else branch
IfInsts_no_goto(fr, l, n) ==
    fr.cond.insts
      \o << CondBranch(fr.cond, n, l, l + 1), LabelInstruction(l) >>
      \o fr.buf
      \o << LabelInstruction(l + 1) >>
      \o fr.alt
      \o << LabelInstruction(l + 2) >>

\* the buffer ir_if assembles; labels L_then, L_else, L_end = l, l + 1, l + 2
IfInsts(fr, l, n) ==
    fr.cond.insts
      \o << CondBranch(fr.cond, n, l, l + 1), LabelInstruction(l) >>
      \o fr.buf
      \o << GotoInstruction(n + 1, l + 2), LabelInstruction(l + 1) >>
      \o fr.alt
      \o << LabelInstruction(l + 2) >>

\* ir_if after its branches (no else, or a nullptr else, when none was
\* visited); `last` keeps the condition's value, the branches' buffers and
\* the buffer of the if
IfExit ==
    /\ status = "unit"
    /\ frames # <<>>
    /\ Top.kind = "if" /\ Top.phase \in {"else", "done"}
    /\ frames' = Deliver(Pop(frames), IfInsts(Top, st.nl, st.nt))
    /\ st' = [st EXCEPT !.nl = @ + 3, !.nt = @ + 2]
    /\ last' = [node |-> [op |-> "if", then |-> Top.buf, else |-> Top.alt],
                ok |-> TRUE, val |-> Top.cond.val,
                insts |-> IfInsts(Top, st.nl, st.nt), addr |-> Null]
    /\ UNCHANGED <<asm, busy, sel, status, curFunc, funcs, loopCondStack, loopEndStack, nstmts,
                   pc, env, visited>>

\* ir_function_define after the formal parameters: the return slot and its
\* initialisation, then the body block without a scope of its own
FuncDefineRet(name, ret, fp, exitLabel, entry, rv) ==
    /\ curFunc' = name
    /\ funcs' = Append(funcs, [newFunction(name, ret) EXCEPT
                                 !.params = fp.types,
                                 !.code = <<entry>> \o fp.moves,
                                 !.exitLabel = exitLabel,
                                 !.retVal = rv.val])
    /\ IF ret = "void"
       THEN /\ frames' = <<Frame("func", "stmts", <<>>, NoCond, 0, 0, 0)>>
            /\ st' = rv.st
       ELSE /\ frames' = <<Frame("func", "stmts",
                                 <<MoveInstruction(rv.st.nt, rv.val, newConstInt(0))>>,
                                 NoCond, 0, 0, 0)>>
            /\ st' = [rv.st EXCEPT !.nt = @ + 1]
    /\ status' = status

FuncDefineParams(name, ret, fp, exitLabel, entry) ==
    IF ~fp.ok
    THEN /\ curFunc' = name
         /\ funcs' = Append(funcs, [newFunction(name, ret) EXCEPT
                                      !.params = fp.types, !.code = <<entry>>,
                                      !.exitLabel = exitLabel])
         /\ Abort(fp.st)
    ELSE FuncDefineRet(name, ret, fp, exitLabel, entry,
            IF ret = "void" THEN [val |-> Null, st |-> fp.st]
            ELSE newVarValue(fp.st, name, ret, <<>>, ""))

\* ir_function_define up to the visit of the body
FuncDefine(name, ret, params, oob) ==
    /\ status = "unit"
    /\ frames = <<>> \/ CanTakeStmt
    /\ last' = NoLast
    /\ nstmts' = nstmts + 1
    /\ UNCHANGED <<asm, busy, sel, loopCondStack, loopEndStack, pc, env, visited>>
    /\ IF curFunc # "" \/ findFunction(funcs, name) # 0
       THEN Abort(st) /\ UNCHANGED <<curFunc, funcs>>
       ELSE FuncDefineParams(name, ret,
              ir_function_formal_params(params,
                  [Ctx(oob) EXCEPT !.cur = name,
                                   !.funcs = Append(funcs, newFunction(name, ret))],
                  [enterScope(st) EXCEPT !.nt = @ + 1, !.nl = @ + 1]),
              st.nl, EntryInstruction(st.nt))

\* an instruction list with the body after the Exit
FuncCode_body_last(f, buf, n) ==
    f.code \o << LabelInstruction(f.exitLabel), ExitInstruction(n, f.retVal) >> \o buf

\* the function's instruction list once the body is lowered
FuncCode(f, buf, n) ==
    f.code \o buf \o << LabelInstruction(f.exitLabel), ExitInstruction(n, f.retVal) >>

\* ir_function_define after the body
FuncExit ==
    /\ status = "unit"
    /\ frames # <<>>
    /\ Top.kind = "func"
    /\ funcs' = [funcs EXCEPT ![Len(funcs)] =
                    [@ EXCEPT !.code = FuncCode(CurF, Top.buf, st.nt), !.complete = TRUE]]
    /\ st' = leaveScope([st EXCEPT !.nt = @ + 1])
    /\ curFunc' = ""
    /\ frames' = <<>>
    /\ UNCHANGED <<asm, busy, sel, status, loopCondStack, loopEndStack, nstmts, last, pc, env, visited>>

\* ir_compile_unit returns true
UnitDone ==
    /\ status = "unit"
    /\ frames = <<>>
    /\ status' = "done"
    /\ UNCHANGED <<asm, busy, sel, curFunc, funcs, st, loopCondStack, loopEndStack, frames, nstmts,
                   last, pc, env, visited>>

\* the selector before and between calls
Idle == [phase |-> "idle", ks |-> 0, kr |-> 0, args |-> <<>>, res |-> FALSE]

InitSt ==
    [nl |-> 1, nt |-> 1, nv |-> 1, scopes |-> <<EmptyScope>>, globals |-> <<>>,
     existCall |-> FALSE, maxArgs |-> 0, crash |-> FALSE]

Init ==
    /\ status = "unit"
    /\ curFunc = ""
    /\ funcs = <<>>
    /\ st = InitSt
    /\ loopCondStack = <<>>
    /\ loopEndStack = <<>>
    /\ frames = <<>>
    /\ nstmts = 0
    /\ last = NoLast
    /\ pc = 0
    /\ env = <<>>
    /\ visited = {}
    /\ asm = <<>>
    /\ busy = {}
    /\ sel = Idle

-----------------------------------------------------------------------------
(* Execution of the instruction list of the unit's function, as the        *)
(* selector translates each instruction.  Memory is not modelled: a load   *)
(* and a call yield any value.                                             *)

\* what a call returns and a load reads
OracleVals == {0, 1}

Key(v) == <<v.k, v.id>>
Code == funcs[1].code

\* the address of an array variable of the function or of the module
ArrayBase(v) == 1024 * v.id

Bound(v) == v.k = "const" \/ Key(v) \in DOMAIN env \/ v.ty = "arr"

\* the value an operand holds
ValOf(v) ==
    IF v.k = "const" THEN v.id
    ELSE IF Key(v) \in DOMAIN env THEN env[Key(v)]
    ELSE ArrayBase(v)

LabelPos(l) == CHOOSE p \in 1..Len(Code) : Code[p].op = "label" /\ Code[p].id = l

\* the argument passed for parameter i
ParamArg(ty, i, xv) == IF ty = "arr" THEN 64 * i ELSE xv

ExecStart(xv) ==
    /\ status = "done"
    /\ Len(funcs) = 1
    /\ funcs[1].complete
    /\ status' = "run"
    /\ pc' = 1
    /\ env' = [k \in {<<"param", i>> : i \in 1..Len(funcs[1].params)} |->
                 ParamArg(funcs[1].params[k[2]].ty, k[2], xv)]
    /\ visited' = {}
    /\ UNCHANGED <<asm, busy, sel, curFunc, funcs, st, loopCondStack, loopEndStack, frames, nstmts, last>>

Running(ops) == status = "run" /\ Code[pc].op \in ops

Advance(target, e) ==
    /\ pc' = target
    /\ env' = e
    /\ visited' = visited \cup {pc}
    /\ status' = status
    /\ UNCHANGED <<asm, busy, sel, curFunc, funcs, st, loopCondStack, loopEndStack, frames, nstmts, last>>

\* an operand that is nullptr, or a local never written: the run stops
Trap ==
    /\ status' = "trap"
    /\ visited' = visited \cup {pc}
    /\ UNCHANGED <<asm, busy, sel, curFunc, funcs, st, loopCondStack, loopEndStack, frames, nstmts,
                   last, pc, env>>

\* translate_entry, translate_label: no effect on values
ExecLabel ==
    /\ Running({"entry", "label"})
    /\ Advance(pc + 1, env)

\* translate_br: b target; or cmp cond, #0; bne trueTarget; b falseTarget
ExecGoto ==
    /\ Running({"goto", "bc"})
    /\ IF Code[pc].op = "goto" THEN Advance(LabelPos(Code[pc].t), env)
       ELSE IF ~Bound(Code[pc].a) THEN Trap
       ELSE Advance(LabelPos(IF ValOf(Code[pc].a) # 0 THEN Code[pc].t ELSE Code[pc].f), env)

\* translate_assign; a Slice carries the opcode of an assign and holds the
\* address it was given
ExecMove ==
    /\ Running({"move", "slice"})
    /\ IF Code[pc].op = "slice"
       THEN Advance(pc + 1, (Key(InstVal(Code[pc])) :> ValOf(Code[pc].a)) @@ env)
       ELSE IF Code[pc].a.k = "null" \/ ~Bound(Code[pc].b) THEN Trap
       ELSE Advance(pc + 1, (Key(Code[pc].a) :> ValOf(Code[pc].b)) @@ env)

Arith(op, x, y) ==
    CASE op = "add" -> x + y
      [] op = "sub" -> x - y
      [] op = "mul" -> x * y
      [] op = "lt" -> IF x < y THEN 1 ELSE 0
      [] op = "gt" -> IF x > y THEN 1 ELSE 0
      [] op = "le" -> IF x <= y THEN 1 ELSE 0
      [] op = "ge" -> IF x >= y THEN 1 ELSE 0
      [] op = "eq" -> IF x = y THEN 1 ELSE 0
      [] OTHER -> IF x # y THEN 1 ELSE 0

\* translate_two_operator, translate_cmp_operator
ExecBinary ==
    /\ Running({"add", "sub", "mul", "lt", "gt", "le", "ge", "eq", "ne"})
    /\ IF ~Bound(Code[pc].a) \/ ~Bound(Code[pc].b) THEN Trap
       ELSE Advance(pc + 1,
               (Key(InstVal(Code[pc])) :>
                   Arith(Code[pc].op, ValOf(Code[pc].a), ValOf(Code[pc].b))) @@ env)

\* translate_call: the callee's result is any value
ExecCall ==
    /\ Running({"call"})
    /\ \E o \in OracleVals : Advance(pc + 1, (Key(InstVal(Code[pc])) :> o) @@ env)

\* LoadArray reads any value; StoreArray writes memory, which no value here
\* depends on
ExecLoad ==
    /\ Running({"load", "store"})
    /\ IF Code[pc].op = "store" THEN Advance(pc + 1, env)
       ELSE \E o \in OracleVals : Advance(pc + 1, (Key(InstVal(Code[pc])) :> o) @@ env)

\* translate_exit
ExecExit ==
    /\ Running({"exit"})
    /\ status' = "halt"
    /\ visited' = visited \cup {pc}
    /\ UNCHANGED <<asm, busy, sel, curFunc, funcs, st, loopCondStack, loopEndStack, frames, nstmts,
                   last, pc, env>>

-----------------------------------------------------------------------------
(* Translation of a FuncCall by the ARM32 instruction selector.  An        *)
(* operand is a Value as the selector sees it: its register (-1: none),    *)
(* or a constant, or a memory address base + off.                          *)

ConstOperand(c) == [kind |-> "const", reg |-> -1, base |-> "", off |-> c]
\* a local or temporary of the frame
MemOperand(off) == [kind |-> "mem", reg |-> -1, base |-> "fp", off |-> off]
\* MemVariable with setMemoryAddr(ARM32_SP_REG_NO, esp)
MemVariable(esp) == [kind |-> "mem", reg |-> -1, base |-> "sp", off |-> esp]
\* PlatformArm32::intRegVal[k]
intRegVal(k) == [kind |-> "reg", reg |-> k, base |-> "", off |-> 0]

\* the register file of the allocator, r0..r10
RegFile == 0..10
ArgRegs == 0..3

\* iloc.load_var(r, v): v into register r
load_var(r, v) ==
    << [op |-> IF v.kind = "mem" THEN "ldr" ELSE "mov", r |-> r, x |-> v] >>

\* iloc.store_var(r, v, tmp): register r into v
store_var(r, v) ==
    << [op |-> IF v.kind = "mem" THEN "str" ELSE "mov",
        r |-> IF v.kind = "mem" THEN r ELSE v.reg,
        x |-> IF v.kind = "mem" THEN v ELSE intRegVal(r)] >>

\* iloc.call_fun(name)
call_fun == << [op |-> "bl", r |-> -1, x |-> ConstOperand(0)] >>

\* translate_assign of Move(result, arg1); temp is the register Allocate()
\* returns when both are in memory
translate_assign(result, arg1, temp) ==
    IF arg1.reg # -1 THEN store_var(arg1.reg, result)
    ELSE IF result.reg # -1 THEN load_var(result.reg, arg1)
    ELSE load_var(temp, arg1) \o store_var(temp, result)

\* the argument registers swapped end for end
ArgReg_reversed(k) == 3 - k

\* the register argument k is moved to
ArgReg(k) == k

\* translate_call up to its loops: r0..r3 are reserved when there are operands
TranslateCall(args, res) ==
    /\ sel.phase = "idle"
    /\ asm = <<>>
    /\ sel' = [phase |-> "args", ks |-> 4, kr |-> 0, args |-> args, res |-> res]
    /\ busy' = IF Len(args) > 0 THEN busy \cup ArgRegs ELSE busy
    /\ UNCHANGED <<asm, status, curFunc, funcs, st, loopCondStack, loopEndStack,
                   frames, nstmts, last, pc, env, visited>>

\* one turn of the first loop: operand ks to the stack at [sp, #esp]
CallStackArg ==
    /\ sel.phase = "args"
    /\ sel.ks < Len(sel.args)
    /\ \E temp \in RegFile \ busy :
          asm' = asm \o translate_assign(MemVariable(4 * (sel.ks - 4)),
                                         sel.args[sel.ks + 1], temp)
    /\ sel' = [sel EXCEPT !.ks = @ + 1]
    /\ UNCHANGED <<busy, status, curFunc, funcs, st, loopCondStack, loopEndStack,
                   frames, nstmts, last, pc, env, visited>>

\* one turn of the second loop: operand kr to its register
CallRegArg ==
    /\ sel.phase = "args"
    /\ sel.ks >= Len(sel.args)
    /\ sel.kr < Len(sel.args) /\ sel.kr < 4
    /\ asm' = asm \o translate_assign(intRegVal(ArgReg(sel.kr)), sel.args[sel.kr + 1], -1)
    /\ sel' = [sel EXCEPT !.kr = @ + 1]
    /\ UNCHANGED <<busy, status, curFunc, funcs, st, loopCondStack, loopEndStack,
                   frames, nstmts, last, pc, env, visited>>

\* the call itself; r0..r3 are released
CallBl ==
    /\ sel.phase = "args"
    /\ sel.ks >= Len(sel.args)
    /\ ~(sel.kr < Len(sel.args) /\ sel.kr < 4)
    /\ asm' = asm \o call_fun
    /\ busy' = IF Len(sel.args) > 0 THEN busy \ ArgRegs ELSE busy
    /\ sel' = [sel EXCEPT !.phase = "called"]
    /\ UNCHANGED <<status, curFunc, funcs, st, loopCondStack, loopEndStack,
                   frames, nstmts, last, pc, env, visited>>

\* the end of translate_call: the result, if any, is taken from r0
CallResult ==
    /\ sel.phase = "called"
    /\ asm' = IF sel.res THEN asm \o translate_assign(MemOperand(0), intRegVal(0), -1)
              ELSE asm
    /\ sel' = [sel EXCEPT !.phase = "done"]
    /\ UNCHANGED <<busy, status, curFunc, funcs, st, loopCondStack, loopEndStack,
                   frames, nstmts, last, pc, env, visited>>

-----------------------------------------------------------------------------
(* The compile units explored *)

\* statements and function definitions lowered per unit, handlers in progress
MaxStmts == 4
MaxDepth == 4
\* what a read past the end of a dimension vector may find
OobVals == {0, 7}

WhileConds == { Id("x") }
IfConds == { Lit(0), Bin("and", Id("x"), Bin("or", Lit(1), Un("not", Id("x")))) }

Leafs == { Break, Continue, Return(<<Id("x")>>) }

\* the unit's function definitions, in order
FuncSigs ==
    << <<"f", "i32", <<Param("x", FALSE, <<>>)>> >>,
       <<"g", "void", <<Param("x", FALSE, <<>>)>> >> >>

Bounded == nstmts < MaxStmts /\ Len(frames) < MaxDepth

LeafStmt == \E node \in Leafs : Bounded /\ Stmt(node, 0)
Block == Bounded /\ BlockEnter
While == \E c \in WhileConds : Bounded /\ WhileEnter(c, 0)
If == \E c \in IfConds : Bounded /\ IfEnter(c, 0)
FuncDef ==
    /\ Bounded
    /\ Len(funcs) < Len(FuncSigs)
    /\ FuncDefine(FuncSigs[Len(funcs) + 1][1], FuncSigs[Len(funcs) + 1][2],
                  FuncSigs[Len(funcs) + 1][3], 0)

Next ==
    \/ FuncDef
    \/ LeafStmt
    \/ Block
    \/ BlockExit
    \/ While
    \/ WhileExit
    \/ If
    \/ IfThenEmpty
    \/ IfExit
    \/ FuncExit
    \/ UnitDone

Spec == Init /\ [][Next]_vars

\* One function f(int x, int a[][d2]...[dn]) whose body is one statement,
\* lowered and then run.
MaxDim == 2
MaxIdx == 2
IdxVals == 0..MaxIdx

DimExprs ==
    {<<>>} \cup {<<Lit(d)>> : d \in 1..MaxDim}
           \cup {<<Lit(d), Lit(e)>> : d, e \in 1..MaxDim}

Indices ==
    {<<Lit(i)>> : i \in IdxVals}
      \cup {<<Lit(i), Lit(j)>> : i, j \in IdxVals}
      \cup {<<Lit(i), Lit(j), Lit(k)>> : i, j, k \in IdxVals}
      \cup {<<Id("x")>>, <<Id("x"), Lit(1)>>, <<Lit(1), Id("x")>>}

CallF == Call("f", <<Id("x"), Id("a")>>)

Lefts == { Id("x"), Bin("le", Id("x"), Lit(0)), Bin("sub", Id("x"), Lit(1)) }
Rights == { CallF, Bin("lt", CallF, Lit(1)), Bin("add", Acc("a", <<Lit(1)>>), CallF) }

\* the six comparison operators of the handler table
CmpOps == {"lt", "gt", "le", "ge", "eq", "ne"}

ExecLeafs ==
    {Return(<<Acc("a", idx)>>) : idx \in Indices}
      \cup {Return(<<Bin(op, Id("x"), Lit(1))>>) : op \in CmpOps}
      \cup {Return(<<Bin(op, l, r)>>) : op \in {"and", "or"}, l \in Lefts, r \in Rights}
      \cup { Assign(Acc("a", <<Lit(1), Lit(2)>>), Lit(7)),
             Assign(Acc("a", <<Id("x")>>), Acc("a", <<Lit(0)>>)),
             Assign(Id("x"), Acc("a", <<Lit(1), Lit(0)>>)),
             Return(<<Id("u")>>),
             Assign(Id("u"), Lit(1)),
             Return(<<Bin("add", Id("u"), Lit(1))>>),
             Return(<<Call("f", <<Id("x")>>)>>),
             Return(<<Call("f", <<Bin("add", Id("x"), Lit(1)), Acc("a", <<Lit(0)>>)>>)>>),
             Return(<<Call("f", <<Lit(1), Id("a"), Id("x")>>)>>),
             Return(<<Call("h", <<Id("x")>>)>>) }

ExecFuncDef ==
    \E d \in DimExprs :
        /\ nstmts = 0
        /\ FuncDefine("f", "i32", <<Param("x", FALSE, <<>>), Param("a", TRUE, d)>>, 0)

ExecStmt ==
    \E node \in ExecLeafs, oob \in OobVals : nstmts = 1 /\ Stmt(node, oob)

ExecRun == \E xv \in IdxVals : ExecStart(xv)

NextExec ==
    \/ ExecFuncDef
    \/ ExecStmt
    \/ FuncExit
    \/ UnitDone
    \/ ExecRun
    \/ ExecLabel
    \/ ExecGoto
    \/ ExecMove
    \/ ExecBinary
    \/ ExecCall
    \/ ExecLoad
    \/ ExecExit

SpecExec == Init /\ [][NextExec]_vars

\* the calls translated: up to MaxArgs operands, constants and locals in turn
MaxArgs == 5
CallOperands(n, flip) ==
    [k \in 1..n |-> IF (k + flip) % 2 = 0 THEN ConstOperand(k) ELSE MemOperand(-4 * k)]

CallEnter ==
    \E n \in 0..MaxArgs, flip \in {0, 1}, res \in BOOLEAN :
        TranslateCall(CallOperands(n, flip), res)

NextCall ==
    \/ CallEnter
    \/ CallStackArg
    \/ CallRegArg
    \/ CallBl
    \/ CallResult

SpecCall == Init /\ [][NextCall]_vars

\* a function whose nested blocks declare y and a second x
MaxScopeStmts == 4
ScopeLeafs ==
    { DeclStmt(<<VarDef("y", <<Lit(7)>>)>>),
      DeclStmt(<<VarDef("x", <<Lit(8)>>)>>),
      Return(<<Id("y")>>),
      Return(<<Id("x")>>) }

ScopeFuncDef == nstmts = 0 /\ FuncDefine("f", "i32", <<Param("x", FALSE, <<>>)>>, 0)

ScopeBlock == nstmts < MaxScopeStmts /\ Len(frames) < MaxDepth /\ BlockEnter

\* declarations stand in nested blocks only
ScopeStmt ==
    \E node \in ScopeLeafs :
        /\ nstmts < MaxScopeStmts
        /\ frames # <<>>
        /\ node.op = "decl" => Top.kind = "block"
        /\ Stmt(node, 0)

NextScope ==
    \/ ScopeFuncDef
    \/ ScopeBlock
    \/ ScopeStmt
    \/ BlockExit
    \/ FuncExit
    \/ UnitDone

SpecScope == Init /\ [][NextScope]_vars

\* a unit of two global declarations and a function with an array
\* parameter and one local declaration
GDecls ==
    { DeclStmt(<<VarDef("g", <<>>)>>) }
    \cup { DeclStmt(<<VarDef("g", <<e>>)>>) :
             e \in { Lit(0), Lit(5), Un("neg", Lit(5)), Un("neg", Un("neg", Lit(1))),
                     Un("neg", Lit(MinInt32)), Un("neg", Lit(0)) } }
    \cup { DeclStmt(<<ArrayDef("g", <<e>>)>>) : e \in { Lit(2), Lit(0), Un("neg", Lit(1)) } }

HDecls ==
    { DeclStmt(<<VarDef("h", <<e>>)>>) :
        e \in { Lit(3), Id("g"), Un("neg", Id("g")), Bin("add", Id("g"), Lit(1)),
                Un("neg", Bin("add", Lit(1), Lit(2))) } }
    \cup { DeclStmt(<<ArrayDef("h", <<Lit(2), Id("g")>>)>>) }

ParamDims == { <<>>, <<Lit(2)>>, <<Lit(0)>> }

LocalDecls ==
    { DeclStmt(<<ArrayDef("b", <<e>>)>>) : e \in { Lit(3), Lit(0) } }
    \cup { DeclStmt(<<VarDef("y", <<Lit(0)>>)>>) }

\* a declaration visited by ir_compile_unit
GlobalStmt(node) ==
    /\ status = "unit"
    /\ frames = <<>>
    /\ StmtDone(node, ir_visit_ast_node(node, Ctx(0), st))

GlobalG == \E node \in GDecls : nstmts = 0 /\ GlobalStmt(node)

GlobalH == \E node \in HDecls : nstmts = 1 /\ GlobalStmt(node)

GlobalFuncDef ==
    \E d \in ParamDims : nstmts = 2 /\ FuncDefine("f", "i32", <<Param("a", TRUE, d)>>, 0)

GlobalLocal == \E node \in LocalDecls : nstmts = 3 /\ Stmt(node, 0)

NextGlobal ==
    \/ GlobalG
    \/ GlobalH
    \/ GlobalFuncDef
    \/ GlobalLocal
    \/ FuncExit
    \/ UnitDone

SpecGlobal == Init /\ [][NextGlobal]_vars

\* a function of one parameter whose body is built from if, while and
\* leaf statements, lowered and then run
MaxFlowStmts == 4
MaxFlowDepth == 3
FlowConds == { Id("x"), Bin("lt", Id("x"), Lit(1)) }
FlowLeafs ==
    { Assign(Id("x"), Bin("sub", Lit(1), Id("x"))), Break, Continue, Return(<<Id("x")>>) }

FlowBounded == nstmts < MaxFlowStmts /\ Len(frames) < MaxFlowDepth

FlowFuncDef == nstmts = 0 /\ FuncDefine("f", "i32", <<Param("x", FALSE, <<>>)>>, 0)
FlowLeaf == \E node \in FlowLeafs : nstmts < MaxFlowStmts /\ Stmt(node, 0)
FlowIf == \E c \in FlowConds : FlowBounded /\ IfEnter(c, 0)
FlowWhile == \E c \in FlowConds : FlowBounded /\ WhileEnter(c, 0)
FlowArgs == {0, 1, 2}
FlowRun == \E xv \in FlowArgs : ExecStart(xv)

NextFlow ==
    \/ FlowFuncDef
    \/ FlowLeaf
    \/ FlowIf
    \/ IfThenEmpty
    \/ IfExit
    \/ FlowWhile
    \/ WhileExit
    \/ FuncExit
    \/ UnitDone
    \/ FlowRun
    \/ ExecLabel
    \/ ExecGoto
    \/ ExecMove
    \/ ExecBinary
    \/ ExecExit

SpecFlow == Init /\ [][NextFlow]_vars

\* a function of two parameters that returns a logical expression,
\* lowered and then run
BoolArgs == 0..2
BoolExprs ==
    { Un("not", Id("x")),
      Bin("and", Id("x"), Id("y")),
      Bin("or", Id("x"), Id("y")),
      Un("not", Bin("and", Id("x"), Id("y"))),
      Bin("or", Un("not", Id("x")), Bin("lt", Id("x"), Id("y"))),
      Bin("and", Bin("or", Id("x"), Id("y")), Un("not", Id("y"))) }

BoolFuncDef ==
    /\ nstmts = 0
    /\ FuncDefine("f", "i32", <<Param("x", FALSE, <<>>), Param("y", FALSE, <<>>)>>, 0)

BoolStmt == \E e \in BoolExprs : nstmts = 1 /\ Stmt(Return(<<e>>), 0)

\* the run of the function for the arguments xv, yv
BoolStart(xv, yv) ==
    /\ status = "done"
    /\ Len(funcs) = 1
    /\ funcs[1].complete
    /\ status' = "run"
    /\ pc' = 1
    /\ env' = (<<"param", 1>> :> xv) @@ (<<"param", 2>> :> yv)
    /\ visited' = {}
    /\ UNCHANGED <<asm, busy, sel, curFunc, funcs, st, loopCondStack, loopEndStack, frames,
                   nstmts, last>>

BoolRun == \E xv, yv \in BoolArgs : BoolStart(xv, yv)

NextBool ==
    \/ BoolFuncDef
    \/ BoolStmt
    \/ FuncExit
    \/ UnitDone
    \/ BoolRun
    \/ ExecLabel
    \/ ExecGoto
    \/ ExecMove
    \/ ExecBinary
    \/ ExecExit

SpecBool == Init /\ [][NextBool]_vars

-----------------------------------------------------------------------------
(* The instruction selector run over the function's instruction list.      *)
(* InstSelectorArm32::run translates the instructions in order, each by   *)
(* the handler registered for its operator.                                *)

\* the IRInstOperator an instruction was constructed with
getOp(inst) ==
    CASE inst.op \in {"goto", "bc"} -> "GOTO"
      [] inst.op \in {"move", "slice"} -> "ASSIGN"
      [] inst.op = "entry" -> "ENTRY"
      [] inst.op = "exit" -> "EXIT"
      [] inst.op = "label" -> "LABEL"
      [] inst.op = "call" -> "FUNC_CALL"
      [] inst.op = "load" -> "LOAD_ARRAY"
      [] inst.op = "store" -> "STORE_ARRAY"
      [] inst.op = "div" -> "DIV_I"
      [] inst.op = "mod" -> "MOD_I"
      [] OTHER -> inst.op

\* the operands an instruction was given with addOperand
getOperandsNum(inst) ==
    CASE inst.op \in {"entry", "label", "goto"} -> 0
      [] inst.op \in {"bc", "slice"} -> 1
      [] inst.op = "exit" -> IF inst.a = Null THEN 0 ELSE 1
      [] inst.op = "call" -> Len(inst.args)
      [] OTHER -> 2

\* the operators with an entry in translator_handlers
translator_handlers ==
    {"ENTRY", "EXIT", "LABEL", "GOTO", "ASSIGN", "add", "sub", "mul", "DIV_I", "MOD_I",
     "lt", "gt", "le", "ge", "eq", "ne", "FUNC_CALL", "ARG"}

\* a Value of the lowered code as the selector sees it: a constant, or a
\* Value in memory; none of them has a register
Operand(v) ==
    IF v.k = "const" THEN ConstOperand(v.id)
    ELSE [kind |-> "mem", reg |-> -1, base |-> v.k, off |-> v.id]

\* The allocator as a handler uses it: the busy registers, the register
\* bound to each Value, the register of the last Allocate, and whether a
\* free register was found each time.
Al(b) == [busy |-> b, bind |-> [v \in {} |-> 0], got |-> -1, ok |-> TRUE]

\* the lowest free register (any free one may be returned; the handlers
\* treat the registers r0..r10 alike)
FreeReg(b) == CHOOSE r \in RegFile \ b : \A q \in RegFile \ b : r <= q

\* Allocate(var): a free register, now busy, bound to var if var is a Value
Allocate(al, var) ==
    IF var # Null /\ var \in DOMAIN al.bind THEN [al EXCEPT !.got = al.bind[var]]
    ELSE IF RegFile \ al.busy = {} THEN [al EXCEPT !.got = -1, !.ok = FALSE]
    ELSE [busy |-> al.busy \cup {FreeReg(al.busy)},
          bind |-> IF var = Null THEN al.bind
                   ELSE (var :> FreeReg(al.busy)) @@ al.bind,
          got |-> FreeReg(al.busy),
          ok |-> al.ok]

\* a Value already in register r
Held(al, r) == [al EXCEPT !.got = r]

\* free(var): the register bound to var is released
free(al, var) ==
    IF var # Null /\ var \in DOMAIN al.bind
    THEN [al EXCEPT !.busy = @ \ {al.bind[var]},
                    !.bind = [v \in DOMAIN al.bind \ {var} |-> al.bind[v]]]
    ELSE al

\* iloc.inst(op, rs, arg1, arg2)
inst3(op, rs, arg1, arg2) == << [op |-> op, r |-> rs, x |-> <<arg1, arg2>>] >>

\* what a handler leaves: its assembly, the busy registers, and whether
\* every Allocate found a register
Out(code, al) == [asm |-> code, busy |-> al.busy, ok |-> al.ok]

translate_entry(inst, b) ==
    Out(<< [op |-> "allocStack", r |-> -1, x |-> ConstOperand(0)] >>, Al(b))

translate_exit(inst, b) ==
    Out((IF getOperandsNum(inst) > 0 THEN load_var(0, Operand(inst.a)) ELSE <<>>)
          \o << [op |-> "mov", r |-> 13, x |-> intRegVal(11)],
                [op |-> "bx", r |-> 14, x |-> ConstOperand(0)] >>,
        Al(b))

translate_label(inst, b) ==
    Out(<< [op |-> "label", r |-> -1, x |-> ConstOperand(inst.id)] >>, Al(b))

\* b target; or cmp cond, #0; bne trueTarget; b falseTarget
translate_br(inst, b) ==
    IF inst.op = "goto"
    THEN Out(<< [op |-> "b", r |-> -1, x |-> ConstOperand(inst.t)] >>, Al(b))
    ELSE LET cond == Operand(inst.a)
             a1 == IF cond.reg = -1 THEN Allocate(Al(b), inst.a) ELSE Held(Al(b), cond.reg)
         IN  Out((IF cond.reg = -1 THEN load_var(a1.got, cond) ELSE <<>>)
                   \o << [op |-> "cmp", r |-> a1.got, x |-> ConstOperand(0)],
                         [op |-> "bne", r |-> -1, x |-> ConstOperand(inst.t)],
                         [op |-> "b", r |-> -1, x |-> ConstOperand(inst.f)] >>,
                 free(a1, inst.a))

\* translate_add_int32 ... translate_div_int32
translate_two_operator(inst, b) ==
    LET arg1 == Operand(inst.a)
        arg2 == Operand(inst.b)
        result == Operand(InstVal(inst))
        a1 == IF arg1.reg = -1 THEN Allocate(Al(b), inst.a) ELSE Held(Al(b), arg1.reg)
        a2 == IF arg2.reg = -1 THEN Allocate(a1, inst.b) ELSE Held(a1, arg2.reg)
        a3 == IF result.reg = -1 THEN Allocate(a2, InstVal(inst)) ELSE Held(a2, result.reg)
    IN  Out((IF arg1.reg = -1 THEN load_var(a1.got, arg1) ELSE <<>>)
              \o (IF arg2.reg = -1 THEN load_var(a2.got, arg2) ELSE <<>>)
              \o inst3(IF inst.op = "div" THEN "sdiv" ELSE inst.op, a3.got, a1.got, a2.got)
              \o (IF result.reg = -1 THEN store_var(a3.got, result) ELSE <<>>),
            free(free(free(a3, inst.a), inst.b), InstVal(inst)))

\* sdiv div_reg, arg1, arg2; mul mul_reg, div_reg, arg2; sub result, arg1,
\* mul_reg; the two scratch registers are allocated for no Value
translate_mod_int32(inst, b) ==
    LET arg1 == Operand(inst.a)
        arg2 == Operand(inst.b)
        result == Operand(InstVal(inst))
        a1 == IF arg1.reg = -1 THEN Allocate(Al(b), inst.a) ELSE Held(Al(b), arg1.reg)
        a2 == IF arg2.reg = -1 THEN Allocate(a1, inst.b) ELSE Held(a1, arg2.reg)
        a3 == IF result.reg = -1 THEN Allocate(a2, InstVal(inst)) ELSE Held(a2, result.reg)
        div_reg == Allocate(a3, Null)
        mul_reg == Allocate(div_reg, Null)
    IN  Out((IF arg1.reg = -1 THEN load_var(a1.got, arg1) ELSE <<>>)
              \o (IF arg2.reg = -1 THEN load_var(a2.got, arg2) ELSE <<>>)
              \o inst3("sdiv", div_reg.got, a1.got, a2.got)
              \o inst3("mul", mul_reg.got, div_reg.got, a2.got)
              \o inst3("sub", a3.got, a1.got, mul_reg.got)
              \o (IF result.reg = -1 THEN store_var(a3.got, result) ELSE <<>>),
            free(free(free(free(free(mul_reg, inst.a), inst.b), InstVal(inst)), Null), Null))

\* cmp arg1, arg2; mov result, #0; mov<cond> result, #1
translate_cmp_operator(inst, b) ==
    LET arg1 == Operand(inst.a)
        arg2 == Operand(inst.b)
        result == Operand(InstVal(inst))
        a1 == IF arg1.reg = -1 THEN Allocate(Al(b), inst.a) ELSE Held(Al(b), arg1.reg)
        a2 == IF arg2.reg = -1 THEN Allocate(a1, inst.b) ELSE Held(a1, arg2.reg)
        a3 == IF result.reg = -1 THEN Allocate(a2, InstVal(inst)) ELSE Held(a2, result.reg)
    IN  Out(<< [op |-> "cmp", r |-> a1.got, x |-> intRegVal(a2.got)],
               [op |-> "mov", r |-> a3.got, x |-> ConstOperand(0)],
               [op |-> inst.op, r |-> a3.got, x |-> ConstOperand(1)] >>
              \o (IF result.reg = -1 THEN store_var(a3.got, result) ELSE <<>>),
            free(free(free(a3, inst.a), inst.b), InstVal(inst)))

\* translate_assign of a Move: result is operand 0, arg1 operand 1
translate_move(inst, b) ==
    LET temp == Allocate(Al(b), Null)
        both == Operand(inst.a).reg = -1 /\ Operand(inst.b).reg = -1
    IN  Out(translate_assign(Operand(inst.a), Operand(inst.b), temp.got),
            IF both THEN [temp EXCEPT !.busy = @ \ {temp.got}] ELSE Al(b))

\* the handler the table holds for the instruction's operator
Handler(inst, b) ==
    CASE getOp(inst) = "ENTRY" -> translate_entry(inst, b)
      [] getOp(inst) = "EXIT" -> translate_exit(inst, b)
      [] getOp(inst) = "LABEL" -> translate_label(inst, b)
      [] getOp(inst) = "GOTO" -> translate_br(inst, b)
      [] getOp(inst) = "ASSIGN" -> translate_move(inst, b)
      [] getOp(inst) = "MOD_I" -> translate_mod_int32(inst, b)
      [] getOp(inst) \in {"add", "sub", "mul", "DIV_I"} -> translate_two_operator(inst, b)
      [] OTHER -> translate_cmp_operator(inst, b)

\* what the read of an operand the instruction does not have may lead to
MissingOperandOutcomes == {"fault", "garbage"}

\* InstSelectorArm32::run entered for the unit's function
SelRun ==
    /\ status = "done"
    /\ Len(funcs) = 1
    /\ funcs[1].complete
    /\ sel.phase = "idle"
    /\ sel' = [phase |-> "run", i |-> 1, skipped |-> {}]
    /\ UNCHANGED <<asm, busy, status, curFunc, funcs, st, loopCondStack, loopEndStack,
                   frames, nstmts, last, pc, env, visited>>

SelFrame ==
    UNCHANGED <<status, curFunc, funcs, st, loopCondStack, loopEndStack,
                frames, nstmts, last, pc, env, visited>>

\* one turn of the loop of run: translate(inst)
Translate ==
    /\ sel.phase = "run"
    /\ sel.i <= Len(Code)
    /\ LET inst == Code[sel.i] IN
         IF getOp(inst) \notin translator_handlers
         THEN /\ sel' = [sel EXCEPT !.i = @ + 1, !.skipped = @ \cup {sel.i}]
              /\ UNCHANGED <<asm, busy>>
         ELSE IF getOp(inst) = "ASSIGN" /\ getOperandsNum(inst) < 2
         THEN \E o \in MissingOperandOutcomes :
                 /\ sel' = IF o = "fault" THEN [sel EXCEPT !.phase = "fault"]
                           ELSE [sel EXCEPT !.i = @ + 1]
                 /\ asm' = IF o = "fault" THEN asm
                           ELSE asm \o << [op |-> "undef", r |-> -1, x |-> Operand(inst.a)] >>
                 /\ busy' = busy
         ELSE IF ~Handler(inst, busy).ok
         THEN /\ sel' = [sel EXCEPT !.phase = "spill"]
              /\ UNCHANGED <<asm, busy>>
         ELSE /\ asm' = asm \o Handler(inst, busy).asm
              /\ busy' = Handler(inst, busy).busy
              /\ sel' = [sel EXCEPT !.i = @ + 1]
    /\ SelFrame

\* a function f(int x, int a[]...) of one statement, lowered and then
\* translated
MaxMods == 5

RECURSIVE ModChain(_)
ModChain(k) == IF k = 0 THEN Id("x") ELSE Bin("mod", ModChain(k - 1), Lit(2))

SelLeafs ==
    {Assign(Id("x"), Bin(op, Id("x"), r)) :
         op \in {"add", "sub", "mul", "div", "mod"} \cup CmpOps, r \in {Lit(1), Id("x")}}
      \cup {Return(<<ModChain(k)>>) : k \in 1..MaxMods}
      \cup {Return(<<Acc("a", idx)>>) : idx \in {<<Lit(1)>>, <<Lit(1), Lit(0)>>, <<Id("x")>>}}
      \cup { Assign(Acc("a", <<Lit(1)>>), Id("x")),
             Assign(Acc("a", <<Id("x"), Lit(1)>>), Lit(7)),
             Assign(Id("x"), Acc("a", <<Lit(0)>>)),
             Return(<<Bin("and", Id("x"), Un("not", Id("x")))>>) }

SelFuncDef ==
    \E d \in DimExprs :
        /\ nstmts = 0
        /\ FuncDefine("f", "i32", <<Param("x", FALSE, <<>>), Param("a", TRUE, d)>>, 0)

SelStmt == \E node \in SelLeafs : nstmts = 1 /\ Stmt(node, 0)

NextSel ==
    \/ SelFuncDef
    \/ SelStmt
    \/ FuncExit
    \/ UnitDone
    \/ SelRun
    \/ Translate

SpecSel == Init /\ [][NextSel]_vars

-----------------------------------------------------------------------------
(* Properties *)

Count(insts, ops) == Cardinality({p \in 1..Len(insts) : insts[p].op \in ops})

LabelCount(code, l) ==
    Cardinality({p \in 1..Len(code) : code[p].op = "label" /\ code[p].id = l})

\* the labels the gotos and conditional branches of code name
Targets(code) ==
    {code[p].t : p \in {q \in 1..Len(code) : code[q].op \in {"goto", "bc"}}}
      \cup {code[p].f : p \in {q \in 1..Len(code) : code[q].op = "bc"}}

WhileFrames == {i \in 1..Len(frames) : frames[i].kind = "while"}
Innermost == frames[CHOOSE i \in WhileFrames : \A j \in WhileFrames : j <= i]

\* the statement in `last` was lowered in the function still being lowered
InFunction == curFunc # "" /\ frames # <<>>

\* the function of SpecExec is lowered and its statement is in `last`
Lowered == Len(funcs) = 1 /\ funcs[1].complete /\ last.ok
Ran == status \in {"run", "halt", "trap"}

\* the value parameter x was called with
X0 == env[<<"param", 1>>]
\* the declared shape of parameter a, first dimension erased
DimsA == funcs[1].params[2].dims
\* Entry, the parameter Moves and the return slot's initialisation
Pre == Len(funcs[1].params) + 2

LastExpr == last.node.e[1]
IsReturnOf(ops) ==
    last.node.op = "return" /\ last.node.e # <<>> /\ last.node.e[1].op \in ops

\* C1: the first conditional branch of the function is the one of the && / ||
BcPos == CHOOSE p \in 1..Len(Code) : Code[p].op = "bc" /\ \A q \in 1..(p - 1) : Code[q].op # "bc"
L_rhs == IF LastExpr.op = "and" THEN Code[BcPos].t ELSE Code[BcPos].f
L_skip == IF LastExpr.op = "and" THEN Code[BcPos].f ELSE Code[BcPos].t
\* number of instructions of the left operand: an identifier has none
NLeft == IF LastExpr.l.op = "id" THEN 0 ELSE 1
\* the right operand was lowered after the left one and before the compare
\* and the labels of the && / ||
RightPositions ==
    {p \in (Pre + NLeft + 1)..(Len(Code) - 2) :
        IF Code[p].op = "label" THEN Code[p].id < Code[BcPos].t /\ Code[p].id < Code[BcPos].f
        ELSE Code[p].id < Code[BcPos].a.id}

\* the value of the left operand, from the source expression
LeftVal ==
    CASE LastExpr.l.op = "id" -> X0
      [] LastExpr.l.op = "le" -> IF X0 <= 0 THEN 1 ELSE 0
      [] OTHER -> X0 - 1

\* C1: short-circuit evaluation.  In the code of `return l && r` (`l || r`)
\* the branch tests l != 0, the label L_rhs follows it at once, every
\* instruction of r (among them a call) lies after L_rhs, and L_rhs is named
\* only by the true (false) edge of that branch; on every run of the
\* function an instruction of r is executed only if l was non-zero (zero).
C1_ShortCircuit ==
    (Lowered /\ IsReturnOf({"and", "or"})) =>
        /\ Code[BcPos - 1].op = "ne"
        /\ Code[BcPos].a = InstVal(Code[BcPos - 1])
        /\ Code[BcPos - 1].b = newConstInt(0)
        /\ Code[BcPos - 1].a = IF NLeft = 0 THEN Code[2].a ELSE InstVal(Code[Pre + 1])
        /\ Code[BcPos + 1] = LabelInstruction(L_rhs)
        /\ L_skip # L_rhs
        /\ \E p \in RightPositions : Code[p].op = "call"
        /\ \A p \in RightPositions : p > BcPos + 1
        /\ \A p \in 1..Len(Code) :
              (p # BcPos /\ Code[p].op \in {"goto", "bc"}) =>
                  Code[p].t # L_rhs /\ Code[p].f # L_rhs
        /\ Ran => \A q \in visited :
                     q \in RightPositions =>
                        IF LastExpr.op = "and" THEN LeftVal # 0 ELSE LeftVal = 0

\* a run of `return l && r` to the Exit with l = 0
C1_Witness ==
    /\ Lowered /\ IsReturnOf({"and"})
    /\ status = "halt"
    /\ LeftVal = 0
    /\ \A q \in visited : Code[q].op # "call"

IdxVal(e) == IF e.op = "uint" THEN e.v ELSE X0

RECURSIVE RowMajor(_, _, _)
\* ((i1*d2 + i2)*d3 + i3) ... + ik
RowMajor(idx, dims, k) ==
    IF k = 1 THEN IdxVal(idx[1])
    ELSE RowMajor(idx, dims, k - 1) * dims[k] + IdxVal(idx[k])

RECURSIVE Product(_)
Product(ds) == IF ds = <<>> THEN 1 ELSE Head(ds) * Product(Tail(ds))

\* C2: row-major addressing.  On every run of `return a[i1]...[ik]` with
\* 1 <= k <= n the address the LoadArray or Slice is given equals
\* base(a) + 4 * (((i1*d2 + i2)*d3 + i3) ... + ik) * PRODUCT(d_{k+1}..d_n),
\* and no multiplication is by the erased first dimension 0.
C2_RowMajor ==
    (Lowered /\ IsReturnOf({"access"}) /\ Len(LastExpr.idx) <= Len(DimsA)) =>
        /\ \A p \in 1..Len(Code) : Code[p].op = "mul" => Code[p].b # newConstInt(DimsA[1])
        /\ Ran => \A q \in visited :
                     Code[q].op \in {"load", "slice"} =>
                        ValOf(Code[q].a) =
                            ParamArg("arr", 2, 0)
                              + 4 * RowMajor(LastExpr.idx, DimsA, Len(LastExpr.idx))
                                  * Product(SubSeq(DimsA, Len(LastExpr.idx) + 1, Len(DimsA)))

\* a finished run of a partial access a[1][2] to an array of rank 3
C2_Witness ==
    /\ Lowered /\ IsReturnOf({"access"})
    /\ status = "halt"
    /\ LastExpr.idx = <<Lit(1), Lit(2)>>
    /\ Len(DimsA) = 3
    /\ \E q \in visited : Code[q].op = "slice"

\* C3: label resolution.  In the instruction list of every function lowered
\* to the end, each label a goto or conditional branch names is emitted
\* exactly once as a Label instruction of that list.
C3_LabelResolution ==
    \A i \in 1..Len(funcs) :
        funcs[i].complete =>
            \A l \in Targets(funcs[i].code) : LabelCount(funcs[i].code, l) = 1

\* a finished function with a loop, a branch on && and ||, and a return
C3_Witness ==
    \E i \in 1..Len(funcs) :
        /\ funcs[i].complete
        /\ Count(funcs[i].code, {"bc"}) >= 4
        /\ funcs[i].exitLabel \in Targets(funcs[i].code)
        /\ \E p \in 1..Len(funcs[i].code) :
              /\ funcs[i].code[p].op = "goto"
              /\ \E q \in 1..(p - 1) : funcs[i].code[q] = LabelInstruction(funcs[i].code[p].t)

\* C4: function body well-formedness.  The instruction list of a function
\* lowered to the end starts with its only Entry, ends with its exit label
\* followed by its only Exit, and the parameter Moves, the return slot's
\* initialisation and the body lie in between.
C4_FunctionBodyWellFormed ==
    \A i \in 1..Len(funcs) :
        funcs[i].complete =>
            /\ Len(funcs[i].code) >= 3 + Len(funcs[i].params)
            /\ funcs[i].code[1].op = "entry"
            /\ funcs[i].code[Len(funcs[i].code)].op = "exit"
            /\ funcs[i].code[Len(funcs[i].code)].a = funcs[i].retVal
            /\ funcs[i].code[Len(funcs[i].code) - 1] = LabelInstruction(funcs[i].exitLabel)
            /\ Count(funcs[i].code, {"entry"}) = 1
            /\ Count(funcs[i].code, {"exit"}) = 1
            /\ LabelCount(funcs[i].code, funcs[i].exitLabel) = 1
            /\ \A j \in 1..Len(funcs[i].params) :
                  /\ funcs[i].code[1 + j].op = "move"
                  /\ funcs[i].code[1 + j].b.k = "param"
                  /\ funcs[i].code[1 + j].b.id = j
            /\ funcs[i].ret # "void" =>
                  /\ funcs[i].code[2 + Len(funcs[i].params)].op = "move"
                  /\ funcs[i].code[2 + Len(funcs[i].params)].a = funcs[i].retVal
                  /\ funcs[i].code[2 + Len(funcs[i].params)].b = newConstInt(0)

\* a finished non-void function with a parameter and a body
C4_Witness ==
    \E i \in 1..Len(funcs) :
        /\ funcs[i].complete
        /\ funcs[i].ret = "i32"
        /\ Len(funcs[i].params) = 1
        /\ Len(funcs[i].code) >= 8

\* C5: break and continue target the innermost loop.  A break lowered
\* inside while statements is one goto to the end label of the innermost
\* while being lowered, a continue one goto to its condition label.
C5_InnermostLoop ==
    (InFunction /\ last.ok /\ last.node.op \in {"break", "continue"} /\ WhileFrames # {}) =>
        /\ Len(last.insts) = 1
        /\ last.insts[1].op = "goto"
        /\ last.insts[1].t = IF last.node.op = "break" THEN Innermost.le ELSE Innermost.lc

\* a break in the block of an outer while, after an inner while of that
\* block was lowered to the end
C5_Witness ==
    /\ InFunction /\ last.ok /\ last.node.op = "break"
    /\ Cardinality(WhileFrames) = 1
    /\ Top.kind = "block"
    /\ Len(Top.buf) >= 6
    /\ Top.buf[1].op = "label"
    /\ Top.buf[Len(Top.buf)].t = Innermost.le

\* C6: break and continue outside a loop are rejected.  Lowering a break or
\* continue fails exactly when no while is being lowered around it; while
\* lowering goes on the loop stack is as deep as the whiles being lowered,
\* so empty outside every while; both stacks always have the same depth.
C6_OutsideLoopRejected ==
    /\ Len(loopCondStack) = Len(loopEndStack)
    /\ status = "unit" => Len(loopCondStack) = Cardinality(WhileFrames)
    /\ (InFunction /\ last.node.op \in {"break", "continue"}) =>
          (last.ok <=> WhileFrames # {})

\* a break rejected in a function body after a while of that body was
\* lowered to the end
C6_Witness ==
    /\ InFunction /\ ~last.ok /\ last.node.op = "break"
    /\ status = "failed"
    /\ Top.kind = "func"
    /\ \E p, q \in 1..Len(Top.buf) :
          /\ p < q
          /\ Top.buf[p].op = "label"
          /\ Top.buf[q].op = "goto"
          /\ Top.buf[q].t = Top.buf[p].id
    /\ loopEndStack = <<>>

UsesUndefined ==
    { Return(<<Id("u")>>), Assign(Id("u"), Lit(1)), Return(<<Bin("add", Id("u"), Lit(1))>>) }

\* C7: undefined identifier.  Lowering a statement that names u, which no
\* scope declares, fails, and no instruction with a null operand is made.
C7_UndefinedIdentifierFails ==
    (InFunction /\ last.node \in UsesUndefined) =>
        /\ ~last.ok
        /\ \A p \in 1..Len(last.insts) :
              last.insts[p].op \in {"move", "add"} =>
                  last.insts[p].a # Null /\ last.insts[p].b # Null

\* the value lowering must pass for argument expression e
ArgMatches(e, v) ==
    CASE e.op = "uint" -> v = newConstInt(e.v)
      [] e.op = "id" -> v = findVarValue(st, e.n)
      [] e.op = "access" ->
            \E q \in 1..Len(last.insts) :
                InstVal(last.insts[q]) = v /\ last.insts[q].op \in {"load", "slice"}
      [] OTHER ->
            \E q \in 1..Len(last.insts) :
                InstVal(last.insts[q]) = v /\ last.insts[q].op = e.op

\* C8: argument-count check.  Lowering `return f(args)` for a defined f
\* fails and leaves no FuncCall when the number of arguments differs from
\* the number of f's parameters; otherwise it emits exactly one FuncCall
\* whose operands are the arguments' values in left-to-right order.
C8_ArgCount ==
    (InFunction /\ IsReturnOf({"call"}) /\ findFunction(funcs, LastExpr.n) # 0) =>
        IF Len(LastExpr.args) # Len(funcs[findFunction(funcs, LastExpr.n)].params)
        THEN ~last.ok /\ Count(last.insts, {"call"}) = 0
        ELSE /\ last.ok
             /\ Count(last.insts, {"call"}) = 1
             /\ \A p \in 1..Len(last.insts) :
                   last.insts[p].op = "call" =>
                      /\ last.insts[p].callee = LastExpr.n
                      /\ Len(last.insts[p].args) = Len(LastExpr.args)
                      /\ \A j \in 1..Len(LastExpr.args) :
                            ArgMatches(LastExpr.args[j], last.insts[p].args[j])

\* the call f(x + 1, a[0]) lowered
C8_Witness ==
    /\ InFunction /\ IsReturnOf({"call"}) /\ last.ok
    /\ LastExpr.args = <<Bin("add", Id("x"), Lit(1)), Acc("a", <<Lit(0)>>)>>
    /\ Count(last.insts, {"call"}) = 1

\* the array access in rvalue position of the statement in `last`
IsRvalueAccess ==
    \/ IsReturnOf({"access"})
    \/ last.node.op = "assign" /\ last.node.l.op = "id" /\ last.node.r.op = "access"
RvalueAccess == IF last.node.op = "return" THEN last.node.e[1] ELSE last.node.r
\* the value the statement uses for the access
RvalueVal == IF last.node.op = "return" THEN last.val ELSE last.insts[Len(last.insts)].b

\* C9: array access as rvalue.  An access with k indices to a of rank n
\* emits exactly one LoadArray of type i32 and no Slice when k = n, and
\* exactly one Slice of type Array(elem, [d_{k+1}..d_n]) and no LoadArray
\* when k < n.
C9_RvalueAccess ==
    (InFunction /\ last.ok /\ IsRvalueAccess /\ Len(RvalueAccess.idx) <= Len(CurF.params[2].dims)) =>
        IF Len(RvalueAccess.idx) = Len(CurF.params[2].dims)
        THEN /\ Count(last.insts, {"load"}) = 1
             /\ Count(last.insts, {"slice"}) = 0
             /\ RvalueVal.ty = "i32"
             /\ \E p \in 1..Len(last.insts) :
                   last.insts[p].op = "load" /\ InstVal(last.insts[p]) = RvalueVal
        ELSE /\ Count(last.insts, {"slice"}) = 1
             /\ Count(last.insts, {"load"}) = 0
             /\ RvalueVal.ty = "arr"
             /\ RvalueVal.dims = SubSeq(CurF.params[2].dims, Len(RvalueAccess.idx) + 1,
                                        Len(CurF.params[2].dims))
             /\ \E p \in 1..Len(last.insts) :
                   last.insts[p].op = "slice" /\ InstVal(last.insts[p]) = RvalueVal

\* `return a[1]` lowered for a of rank 3 with d2 # d3
C9_Witness ==
    /\ InFunction /\ last.ok /\ IsReturnOf({"access"})
    /\ LastExpr.idx = <<Lit(1)>>
    /\ CurF.params[2].dims = <<0, 1, 2>>
    /\ last.val.dims = <<1, 2>>

\* C10: array access as assignment target.  For an assignment whose left
\* side is a full array access the LoadArray of that access is suppressed:
\* the statement has exactly one StoreArray, and as many LoadArray as its
\* right side has full array accesses.
C10_LhsLoadSuppressed ==
    (InFunction /\ last.ok /\ last.node.op = "assign" /\ last.node.l.op = "access"
       /\ Len(last.node.l.idx) = Len(CurF.params[2].dims)) =>
        /\ Count(last.insts, {"store"}) = 1
        /\ Count(last.insts, {"load"}) =
              IF last.node.r.op = "access"
                 /\ Len(last.node.r.idx) = Len(CurF.params[2].dims)
              THEN 1 ELSE 0

\* C11: context-dependent widening of comparisons.  For each of the six
\* comparison operators, a comparison that is the value of a return exposes
\* an i32 produced by the bool-to-int pattern, and a comparison that is the
\* right operand of && or || exposes the raw i1 of its compare instruction,
\* which the operand test `!= 0` reads directly.
C11_ContextWidening ==
    (InFunction /\ last.ok /\ last.node.op = "return" /\ last.node.e # <<>>) =>
        /\ LastExpr.op \in CmpOps =>
              /\ last.val.ty = "i32"
              /\ Count(last.insts, {"bc"}) = 1
        /\ (LastExpr.op \in {"and", "or"} /\ LastExpr.r.op \in CmpOps) =>
              \E p, q \in 1..Len(last.insts) :
                  /\ last.insts[p].op = LastExpr.r.op
                  /\ last.insts[p].ty = "i1"
                  /\ last.insts[q].op = "ne"
                  /\ last.insts[q].a = InstVal(last.insts[p])

\* the instructions of branch buffer b that the buffer of the if holds
Emitted(b) == {p \in 1..Len(b) : \E q \in 1..Len(last.insts) : last.insts[q] = b[p]}

\* C12: constant-condition if.  When the condition of an if lowers to a
\* ConstInt, the buffer of the if holds no instruction of the untaken
\* branch: none of the else branch for a non-zero constant, none of the
\* then branch for zero.
C12_ConstantIf ==
    (InFunction /\ last.node.op = "if" /\ last.val.k = "const") =>
        IF last.val.id # 0 THEN Emitted(last.node.else) = {}
        ELSE Emitted(last.node.then) = {}

\* what location loc holds after the first i instructions of a: the value
\* of the operand last moved there
RECURSIVE Holds(_, _, _)
Holds(a, i, loc) ==
    IF i = 0 THEN <<"entry", loc>>
    ELSE CASE a[i].op \in {"mov", "ldr"} /\ loc = <<"r", a[i].r>> ->
                 IF a[i].x.kind = "reg" THEN Holds(a, i - 1, <<"r", a[i].x.reg>>)
                 ELSE <<a[i].x.kind, a[i].x.base, a[i].x.off>>
           [] a[i].op = "str" /\ loc = <<a[i].x.base, a[i].x.off>> ->
                 Holds(a, i - 1, <<"r", a[i].r>>)
           [] a[i].op = "bl" /\ loc \in {<<"r", r>> : r \in 0..3} -> <<"callee", loc>>
           [] OTHER -> Holds(a, i - 1, loc)

BlPos == CHOOSE p \in 1..Len(asm) : asm[p].op = "bl"
\* where the calling convention wants argument k
ArgLoc(k) == IF k < 4 THEN <<"r", k>> ELSE <<"sp", 4 * (k - 4)>>
WritesArgLoc(i) ==
    \/ i.op \in {"mov", "ldr"} /\ i.r \in 0..3
    \/ i.op = "str" /\ i.x.base = "sp"

\* C13: argument placement.  Once the `bl` of a call with n operands is
\* emitted, there is one `bl`; at the `bl` argument k is in r<k> for k < 4
\* and at [sp, #4*(k-4)] for k >= 4, for every k in 0..n-1; and the
\* instruction right before the `bl` is a move of an argument.
C13_ArgumentPlacement ==
    sel.phase \in {"called", "done"} =>
        /\ Count(asm, {"bl"}) = 1
        /\ \A k \in 0..(Len(sel.args) - 1) :
              Holds(asm, BlPos - 1, ArgLoc(k)) =
                  <<sel.args[k + 1].kind, sel.args[k + 1].base, sel.args[k + 1].off>>
        /\ Len(sel.args) > 0 => WritesArgLoc(asm[BlPos - 1])

\* a translated call with five operands and a result
C13_Witness ==
    /\ sel.phase = "done"
    /\ Len(sel.args) = 5
    /\ sel.res
    /\ sel.args[5].kind = "mem"
    /\ Count(asm, {"str"}) = 2

BlockFrames == {i \in 1..Len(frames) : frames[i].kind = "block"}
\* the variables declared in the blocks of the function body that have ended
EndedInner ==
    {Top.buf[p].a : p \in {q \in 1..Len(Top.buf) :
                              Top.buf[q].op = "move" /\ Top.buf[q].b \in {newConstInt(7), newConstInt(8)}}}

\* C14: block scoping.  While lowering goes on there is one scope for the
\* module, one for the function being lowered, shared by its body block,
\* and one per nested block being lowered; a name looked up in the function
\* body after nested blocks have ended never resolves to a variable
\* declared in them: y resolves to nothing, x to the parameter's variable.
C14_BlockScoping ==
    /\ status = "unit" =>
          Len(st.scopes) = 1 + (IF curFunc # "" THEN 1 ELSE 0) + Cardinality(BlockFrames)
    /\ (InFunction /\ last.node.op = "return" /\ BlockFrames = {}) =>
          /\ last.val \notin EndedInner
          /\ last.node = Return(<<Id("y")>>) => last.val = Null
          /\ last.node = Return(<<Id("x")>>) => last.val = CurF.code[2].a

\* `return y` and `return x` lowered in the function body after a nested
\* block that declared the name has ended
C14_Witness ==
    /\ InFunction /\ last.node = Return(<<Id("x")>>) /\ BlockFrames = {}
    /\ Cardinality(EndedInner) = 2
    /\ last.val = CurF.code[2].a

\* C15: BSS placement of globals.  A global variable is in the BSS section
\* exactly when it has no initializer or its initializer is ConstInt(0).
C15_BssPlacement ==
    \A i \in 1..Len(st.globals) :
        st.globals[i].inBSSSection <=>
            (st.globals[i].init = Null \/ st.globals[i].init = newConstInt(0))

RECURSIVE IsConstExpr(_)
\* the expressions that lower to a ConstInt at module scope
IsConstExpr(e) == e.op = "uint" \/ (e.op = "neg" /\ IsConstExpr(e.x))

RECURSIVE ConstExprVal(_)
ConstExprVal(e) == IF e.op = "uint" THEN e.v ELSE Neg32(ConstExprVal(e.x))

\* the initializer expression of the global declaration lowered last
GlobalInitExpr == last.node.defs[1].init[1]
IsGlobalInit ==
    /\ curFunc = "" /\ frames = <<>> /\ last.node.op = "decl"
    /\ last.node.defs[1].op = "vardef" /\ last.node.defs[1].init # <<>>
LastGlobal == st.globals[Len(st.globals)]

\* C16: unary minus at module scope.  With no current function, lowering
\* -x succeeds exactly when x lowers to a ConstInt v; the result is then
\* the ConstInt of -v in 32-bit signed arithmetic and no instruction is
\* emitted; for any other operand lowering fails and no value is produced.
C16_ModuleScopeNeg ==
    (IsGlobalInit /\ GlobalInitExpr.op = "neg") =>
        /\ last.ok <=> IsConstExpr(GlobalInitExpr.x)
        /\ last.ok => /\ LastGlobal.init = newConstInt(Neg32(ConstExprVal(GlobalInitExpr.x)))
                      /\ last.insts = <<>>
        /\ ~last.ok => status = "failed" /\ LastGlobal.init = Null

\* the negation of the least 32-bit integer, lowered as a global's initializer
C16_Witness ==
    /\ IsGlobalInit /\ last.ok
    /\ GlobalInitExpr = Un("neg", Lit(MinInt32))
    /\ LastGlobal.init = newConstInt(MinInt32)

\* C17: global initializers are constants.  Whenever the lowering of a
\* global scalar declaration with an initializer succeeds, the initializer
\* attached to the GlobalVariable is a ConstInt; an initializer expression
\* that does not lower to a ConstInt makes lowering fail.
C17_GlobalInitConstant ==
    /\ \A i \in 1..Len(st.globals) :
          st.globals[i].init = Null \/ st.globals[i].init.k = "const"
    /\ (IsGlobalInit /\ ~IsConstExpr(GlobalInitExpr)) => ~last.ok

\* C18: failure handling.  Once the lowering of a node inside a function
\* definition has failed, the module holds no partially built function, no
\* current function and no scope that was entered and never left.
C18_FailureDiscards ==
    status = "failed" =>
        /\ curFunc = ""
        /\ Len(st.scopes) = 1
        /\ \A i \in 1..Len(funcs) : funcs[i].complete \/ funcs[i].code = <<>>

\* the array types of the declared array variables in scope and of the
\* formal parameters
DeclaredArrays ==
    UNION {{st.scopes[i][n] : n \in {"g", "h", "b"} \cap DOMAIN st.scopes[i]} :
              i \in 1..Len(st.scopes)}
ArrayTypes(vals) == {v \in vals : v.ty = "arr"}
ParamTypes == UNION {{funcs[i].params[j] : j \in 1..Len(funcs[i].params)} : i \in 1..Len(funcs)}

\* C19: array dimensions are positive.  Every array type of a declared
\* array variable has all dimensions strictly positive; every array type of
\* an array parameter has first dimension 0 and all further dimensions
\* strictly positive.
C19_PositiveDimensions ==
    /\ \A v \in ArrayTypes(DeclaredArrays) : \A d \in 1..Len(v.dims) : v.dims[d] > 0
    /\ \A t \in ArrayTypes(ParamTypes) :
          /\ t.dims[1] = 0
          /\ \A d \in 2..Len(t.dims) : t.dims[d] > 0

\* C20: return lowering.  The buffer of a return statement ends with an
\* unconditional goto to the function's exit label; with an expression in
\* a non-void function the goto is immediately preceded by the Move of the
\* expression's value to the return slot; in a void function a return
\* emits only the goto and never a Move to the absent return slot.
C20_ReturnLowering ==
    (InFunction /\ last.ok /\ last.node.op = "return") =>
        /\ last.insts # <<>>
        /\ last.insts[Len(last.insts)].op = "goto"
        /\ last.insts[Len(last.insts)].t = CurF.exitLabel
        /\ (last.node.e # <<>> /\ CurF.ret # "void") =>
              /\ Len(last.insts) >= 2
              /\ last.insts[Len(last.insts) - 1].op = "move"
              /\ last.insts[Len(last.insts) - 1].a = CurF.retVal
              /\ last.insts[Len(last.insts) - 1].b = last.val
        /\ CurF.ret = "void" =>
              /\ Len(last.insts) = 1
              /\ \A p \in 1..Len(last.insts) :
                    ~(last.insts[p].op = "move" /\ last.insts[p].a = Null)

\* the statement lowered last is the last one of the body of the function
\* run: the offset of its buffer in the function's instruction list
StmtOff == Len(Code) - 2 - Len(last.insts)
Started == status \in {"run", "halt", "trap"}
\* the positions reached so far
Seen == visited \cup {pc}
RunOf(op) == Started /\ last.node.op = op /\ last.val.k # "const"

\* positions, in the function's instruction list, of the parts of the if
IfBcPos == StmtOff + Len(last.insts) - Len(last.node.then) - Len(last.node.else) - 4
IfThenPos == IfBcPos + 1
IfThenBody == (IfThenPos + 1)..(IfThenPos + Len(last.node.then))
IfGotoPos == IfThenPos + Len(last.node.then) + 1
IfElsePos == IfGotoPos + 1
IfElseBody == (IfElsePos + 1)..(IfElsePos + Len(last.node.else))
IfEndPos == IfElsePos + Len(last.node.else) + 1

\* the emitted sequence of the if
C21_Shape ==
    /\ SubSeq(Code, StmtOff + 1, StmtOff + Len(last.insts)) = last.insts
    /\ IfBcPos > StmtOff
    /\ Code[IfBcPos].op = "bc" /\ Code[IfBcPos].a = last.val
    /\ Code[IfThenPos] = LabelInstruction(Code[IfBcPos].t)
    /\ SubSeq(Code, IfThenPos + 1, IfGotoPos - 1) = last.node.then
    /\ Code[IfGotoPos].op = "goto" /\ Code[IfEndPos] = LabelInstruction(Code[IfGotoPos].t)
    /\ Code[IfElsePos] = LabelInstruction(Code[IfBcPos].f)
    /\ SubSeq(Code, IfElsePos + 1, IfEndPos - 1) = last.node.else
    /\ IfEndPos = StmtOff + Len(last.insts)
    /\ Cardinality({Code[IfBcPos].t, Code[IfBcPos].f, Code[IfGotoPos].t}) = 3
    /\ \A l \in {Code[IfBcPos].t, Code[IfBcPos].f, Code[IfGotoPos].t} : LabelCount(Code, l) = 1

\* at most one arm has run, and an arm that has run to its end is
\* followed by L_end
C21_OneArm ==
    /\ Seen \cap IfThenBody = {} \/ Seen \cap IfElseBody = {}
    /\ IfBcPos \in visited => (IfThenPos \in Seen) # (IfElsePos \in Seen)
    /\ IfGotoPos \in visited => IfEndPos \in Seen
    /\ (IfElsePos \in visited /\ last.node.else = <<>>) => IfEndPos \in Seen

\* the branch goes to L_then exactly when the condition is true
C21_Branch ==
    (RunOf("if") /\ pc = IfBcPos /\ pc' # pc) =>
        pc' = IF ValOf(Code[pc].a) # 0 THEN IfThenPos ELSE IfElsePos

\* C21: an if with a non-constant condition is emitted as condition buffer,
\* bc cond L_then L_else, L_then, then-body, goto L_end, L_else, else-body,
\* L_end; on every run exactly one of the arms is executed, the then arm
\* exactly when the condition is true, both arms continue at L_end, and an
\* absent else leaves L_else falling through to L_end.
C21_IfLowering ==
    /\ [](RunOf("if") => C21_Shape /\ C21_OneArm)
    /\ [][C21_Branch]_vars

\* a run that took the else arm of an if with both arms and reached L_end
C21_Witness ==
    /\ RunOf("if") /\ status = "halt"
    /\ last.node.then # <<>> /\ last.node.else # <<>>
    /\ IfElseBody \subseteq visited /\ IfEndPos \in visited

\* positions, in the function's instruction list, of the parts of the loop
WhCondPos == StmtOff + 1
WhCondBody == (WhCondPos + 1)..(WhCondPos + Len(last.node.cond))
WhBcPos == WhCondPos + Len(last.node.cond) + 1
WhBodyPos == WhBcPos + 1
WhBody == (WhBodyPos + 1)..(WhBodyPos + Len(last.node.body))
WhGotoPos == WhBodyPos + Len(last.node.body) + 1
WhEndPos == WhGotoPos + 1

\* the emitted sequence of the loop
C22_Shape ==
    /\ SubSeq(Code, StmtOff + 1, StmtOff + Len(last.insts)) = last.insts
    /\ Code[WhCondPos] = LabelInstruction(last.node.lc)
    /\ SubSeq(Code, WhCondPos + 1, WhBcPos - 1) = last.node.cond
    /\ Code[WhBcPos].op = "bc" /\ Code[WhBcPos].a = last.val
    /\ Code[WhBcPos].t = last.node.lb /\ Code[WhBcPos].f = last.node.le
    /\ Code[WhBodyPos] = LabelInstruction(last.node.lb)
    /\ SubSeq(Code, WhBodyPos + 1, WhGotoPos - 1) = last.node.body
    /\ Code[WhGotoPos].op = "goto" /\ Code[WhGotoPos].t = last.node.lc
    /\ Code[WhEndPos] = LabelInstruction(last.node.le)
    /\ WhEndPos = StmtOff + Len(last.insts)
    /\ Cardinality({last.node.lc, last.node.lb, last.node.le}) = 3
    /\ \A l \in {last.node.lc, last.node.lb, last.node.le} : LabelCount(Code, l) = 1

\* the steps of a run through the loop
C22_Steps ==
    (RunOf("while") /\ pc' # pc) =>
        \* the body is entered from the branch, on a true condition
        /\ pc' = WhBodyPos => pc = WhBcPos /\ ValOf(Code[pc].a) # 0
        \* the branch is reached from the condition's instructions, and these
        \* from L_cond only
        /\ pc' = WhBcPos => pc \in WhCondBody \cup {WhCondPos}
        /\ (pc' \in WhCondBody /\ pc \notin WhCondBody) => pc = WhCondPos
        \* from the body the loop is left or continued through L_cond,
        \* L_end or the function's exit
        /\ (pc \in WhBody \cup {WhGotoPos} /\ pc' \notin WhBody \cup {WhGotoPos}) =>
              pc' \in {WhCondPos, WhEndPos, Len(Code) - 1}
        \* L_end is reached by the false edge of the branch or a goto to it
        \* in the body
        /\ pc' = WhEndPos =>
              \/ pc = WhBcPos /\ ValOf(Code[pc].a) = 0
              \/ pc \in WhBody /\ Code[pc].op = "goto" /\ Code[pc].t = last.node.le

RECURSIVE BoolVal(_, _, _)
\* the value of a logical expression as a 0/1 integer
BoolVal(e, x, y) ==
    CASE e.op = "id" -> IF e.n = "x" THEN x ELSE y
      [] e.op = "uint" -> e.v
      [] e.op = "not" -> IF BoolVal(e.x, x, y) = 0 THEN 1 ELSE 0
      [] e.op = "and" -> IF BoolVal(e.l, x, y) # 0 /\ BoolVal(e.r, x, y) # 0 THEN 1 ELSE 0
      [] e.op = "or" -> IF BoolVal(e.l, x, y) # 0 \/ BoolVal(e.r, x, y) # 0 THEN 1 ELSE 0
      [] OTHER -> IF BoolVal(e.l, x, y) < BoolVal(e.r, x, y) THEN 1 ELSE 0

\* the widening pattern stands at position p of the buffer b, for result r
WidenAt(b, p, r) ==
    /\ p + 7 <= Len(b)
    /\ b[p].op = "bc" /\ b[p].a.ty = "i1"
    /\ b[p + 1] = LabelInstruction(b[p].t)
    /\ b[p + 2].op = "move" /\ b[p + 2].a = r /\ b[p + 2].b = newConstInt(1)
    /\ b[p + 3].op = "goto"
    /\ b[p + 4] = LabelInstruction(b[p].f)
    /\ b[p + 5].op = "move" /\ b[p + 5].a = r /\ b[p + 5].b = newConstInt(0)
    /\ b[p + 6].op = "goto" /\ b[p + 6].t = b[p + 3].t
    /\ b[p + 7] = LabelInstruction(b[p + 3].t)
    /\ Cardinality({b[p].t, b[p].f, b[p + 3].t}) = 3
    /\ \A l \in {b[p].t, b[p].f, b[p + 3].t} :
          /\ LabelCount(b, l) = 1
          \* fresh labels: no instruction outside the pattern jumps to them
          /\ \A q \in (1..Len(b)) \ (p..(p + 7)) :
                b[q].op \in {"goto", "bc"} => b[q].t # l /\ b[q].f # l
    \* a fresh local: nothing ahead of the pattern names it
    /\ r.k = "local" /\ r.ty = "i32"
    /\ \A q \in 1..(p - 1) : r \notin {b[q].a, b[q].b}

\* the position where the run is at L_end of the pattern at p
AtWidenEnd(p) == pc = StmtOff + p + 7

\* C23: bool-to-int widening.  convertBoolToInt appends bc cond L_true
\* L_false; L_true: r = 1; goto L_end; L_false: r = 0; goto L_end; L_end
\* with a fresh i32 local r and three fresh labels; arriving at L_end r is
\* 1 if the condition was true and 0 otherwise; the results of !x, a && b
\* and a || b are (x == 0), (a != 0 and b != 0), (a != 0 or b != 0) as 0/1
\* integers.
C23_BoolWidening ==
    (Started /\ last.node.op = "return" /\ LastExpr.op \in {"not", "and", "or"}) =>
        /\ \E p \in 1..Len(last.insts) : WidenAt(last.insts, p, last.val)
        /\ \A p \in 1..Len(last.insts) :
              (WidenAt(last.insts, p, last.insts[p + 2].a) /\ status = "run" /\ AtWidenEnd(p)) =>
                  /\ Key(last.insts[p].a) \in DOMAIN env
                  /\ env[Key(last.insts[p + 2].a)] = IF env[Key(last.insts[p].a)] # 0 THEN 1 ELSE 0
        /\ status = "halt" =>
              env[Key(funcs[1].retVal)] =
                  BoolVal(LastExpr, env[<<"param", 1>>], env[<<"param", 2>>])

\* a halted run of a function returning x && y with both operands true
C23_Witness ==
    /\ status = "halt" /\ last.node.op = "return"
    /\ LastExpr = Bin("and", Id("x"), Id("y"))
    /\ env[<<"param", 1>>] = 2 /\ env[<<"param", 2>>] = 1
    /\ env[Key(funcs[1].retVal)] = 1

\* the position in the buffer b of the instruction whose result is v
DefPos(b, v) == CHOOSE p \in 1..Len(b) : InstVal(b[p]) = v
IsDefined(b, v) == v.k = "inst" /\ \E p \in 1..Len(b) : InstVal(b[p]) = v

\* C24: assignment ordering.  For lhs = rhs the right-hand side is lowered
\* before the left-hand side (its instructions are created first), and in
\* the buffer the instructions of the rhs precede those of the lhs, which
\* precede the single final StoreArray or Move; for binary arithmetic the
\* buffer is left operand, right operand, one BinOp.
C24_AssignmentOrdering ==
    /\ (InFunction /\ last.ok /\ last.node.op = "assign") =>
          /\ last.insts[Len(last.insts)].op \in {"store", "move"}
          /\ Count(last.insts, {"store"}) + Count(last.insts, {"move"}) = 1
          /\ (last.insts[Len(last.insts)].op = "store"
                /\ IsDefined(last.insts, last.insts[Len(last.insts)].a)
                /\ IsDefined(last.insts, last.insts[Len(last.insts)].b)) =>
                \* value (rhs) ahead of address (lhs), in the buffer and in creation
                /\ DefPos(last.insts, last.insts[Len(last.insts)].a)
                     < DefPos(last.insts, last.insts[Len(last.insts)].b)
                /\ last.insts[Len(last.insts)].a.id < last.insts[Len(last.insts)].b.id
    /\ (InFunction /\ last.ok) =>
          \A q \in 1..Len(last.insts) :
              (last.insts[q].op = "add" /\ IsDefined(last.insts, last.insts[q].a)
                 /\ IsDefined(last.insts, last.insts[q].b)) =>
                  /\ DefPos(last.insts, last.insts[q].a) < DefPos(last.insts, last.insts[q].b)
                  /\ DefPos(last.insts, last.insts[q].b) < q
                  /\ last.insts[q].a.id < last.insts[q].b.id

\* C25: call translation protocol.  r0..r3 are reserved while the
\* arguments are moved, across the bl and until the result has been copied
\* out of r0; they are free once the call is translated.
C25_CallProtocol ==
    /\ (sel.phase = "args" /\ Len(sel.args) > 0) => ArgRegs \subseteq busy
    /\ (sel.phase = "called" /\ sel.res) =>
          /\ asm[Len(asm)].op = "bl"
          /\ ArgRegs \subseteq busy
    /\ sel.phase = "done" => busy \cap ArgRegs = {}

\* the operators translate_two_operator, translate_mod_int32 and
\* translate_cmp_operator translate
BinaryOps == {"add", "sub", "mul", "div", "mod"} \cup CmpOps

\* the selector is about to translate a binary integer operation
AtBinary == sel.phase = "run" /\ sel.i <= Len(Code) /\ Code[sel.i].op \in BinaryOps

\* C26: the translation of a binary integer operation (add, sub, mul, sdiv,
\* mod, the six compares) releases every register it acquired: the busy
\* registers after the instruction are those before it, and the register
\* file is never exhausted.
C26_RegistersReleased ==
    [][AtBinary => (busy' = busy /\ sel'.phase = "run")]_vars

\* C27: every operator the lowering places in a function body has a handler
\* registered: no instruction of the body is without one, and the selector
\* skips none (every LoadArray and StoreArray produces assembly).
C27_HandlerCoverage ==
    /\ (status = "done" /\ Len(funcs) = 1) =>
          \A p \in 1..Len(Code) : getOp(Code[p]) \in translator_handlers
    /\ sel.phase # "idle" => sel.skipped = {}

\* C28: every instruction dispatched to translate_assign (operator Assign),
\* the Slice included, has at least two operands: the destination at index
\* 0 and the source at index 1.
C28_MoveArity ==
    (sel.phase = "run" /\ sel.i <= Len(Code) /\ getOp(Code[sel.i]) = "ASSIGN") =>
        getOperandsNum(Code[sel.i]) >= 2

\* the array accesses of the statement in `last`
StmtAccesses ==
    IF IsReturnOf({"access"}) THEN {LastExpr}
    ELSE IF last.node.op = "assign"
    THEN {e \in {last.node.l, last.node.r} : e.op = "access"}
    ELSE {}

\* the declared dimensions of a, and the sizes of its trailing dimensions
DeclaredDims == CurF.params[2].dims
DeclaredSizes ==
    {DeclaredDims[j] : j \in 1..Len(DeclaredDims)}
      \cup {RemainingSize(SubSeq(DeclaredDims, j, Len(DeclaredDims))) :
               j \in 1..(Len(DeclaredDims) + 1)}

\* C29: over-indexing is not lowered.  A statement with an access of k
\* indices to a of rank n < k fails to lower, and no instruction of a
\* statement multiplies an index by anything but a declared dimension of a
\* (a dimension at index >= n is never read).
C29_OverIndexingFails ==
    (InFunction /\ StmtAccesses # {}) =>
        /\ (\E e \in StmtAccesses : Len(e.idx) > Len(DeclaredDims)) => ~last.ok
        /\ \A p \in 1..Len(last.insts) :
              (last.insts[p].op = "mul" /\ last.insts[p].b.k = "const") =>
                  last.insts[p].b.id \in DeclaredSizes \cup {ElementSize}

\* the address instruction of the access lowered last in buffer b before
\* position p: the latest add of pointer type
LastAddrBefore(b, p) ==
    CHOOSE q \in 0..(p - 1) :
        /\ q > 0 => (b[q].op = "add" /\ b[q].ty = "ptr")
        /\ \A r \in (q + 1)..(p - 1) : ~(b[r].op = "add" /\ b[r].ty = "ptr")

\* C30: store address validity.  The StoreArray of an assignment to an array
\* access has as its address operand the address instruction emitted for
\* that left-side access (the left side's instructions are the last ones
\* before the store): never null, never the address of another access,
\* whether the left side is a full or a partial access.
C30_StoreAddress ==
    (InFunction /\ last.ok /\ last.node.op = "assign" /\ last.node.l.op = "access") =>
        \A p \in 1..Len(last.insts) :
            last.insts[p].op = "store" =>
                /\ last.insts[p].b # Null
                /\ LastAddrBefore(last.insts, p) > 0
                /\ last.insts[p].b = InstVal(last.insts[LastAddrBefore(last.insts, p)])

====
